---------------------------- MODULE Spec2Model ----------------------------
(***************************************************************************)
(* Report lifecycle of the issue-reporting application: the submission     *)
(* flow of ReportScreen (checkExistingReport, pickImage, getLocation,      *)
(* uploadReport, deleteReport) and the moderation handlers of              *)
(* AdminDashboard (handleApprove, handleDecline, handleComplete), over the *)
(* shared collections "reports" and "messages" and the image blob store.   *)
(* Every handler is cut at its awaits: the code between two awaits runs    *)
(* without interruption, each awaited service call is one atomic step.     *)
(***************************************************************************)
EXTENDS Integers, Sequences, FiniteSets, Bags, TLC

(* Bounds of the model. *)
MaxDocs == 2    \* storage ids addDoc may hand out for reports
MaxIds == 2     \* submission ids generateId may hand out
MaxMsgs == 2    \* messages the moderation handlers may create

(* Program constants. *)
RADIUS_METERS == 50
ACCURACY_LIMIT == 100

DocIds == 1..MaxDocs

Users == {"u1", "u2"}
Admins == {"a1", "a2"}

(* ReportScreen instances: s1 is the device of user u1, s2 that of u2.     *)
Sessions == {"s1", "s2"}
SessionUser(s) == IF s = "s1" THEN "u1" ELSE "u2"

(* Invocations of uploadReport that may be in flight at once: two in s1    *)
(* (the Submit button pressed again before the first run has finished),    *)
(* one in s2.                                                              *)
UpSlots == {"t1", "t2", "t3"}
UpSession(t) == IF t = "t3" THEN "s2" ELSE "s1"

(* Invocations of a moderation handler that may be in flight at once: two  *)
(* in the dashboard of a1, one in the dashboard of a2.                     *)
ModSlots == {"m1", "m2", "m3"}
ModAdmin(m) == IF m = "m3" THEN "a2" ELSE "a1"

(***************************************************************************)
(* Strings that the code inspects are sequences of characters; strings it  *)
(* only tests for emptiness are TLA+ strings.  A nullable value is a       *)
(* sequence of length at most one.                                         *)
(***************************************************************************)
irishCounties ==
  << <<"C","o","."," ","A","n","t","r","i","m">>,
     <<"C","o","."," ","A","r","m","a","g","h">>,
     <<"C","o","."," ","C","a","r","l","o","w">>,
     <<"C","o","."," ","C","a","v","a","n">>,
     <<"C","o","."," ","C","l","a","r","e">>,
     <<"C","o","."," ","C","o","r","k">>,
     <<"C","o","."," ","D","e","r","r","y">>,
     <<"C","o","."," ","D","o","n","e","g","a","l">>,
     <<"C","o","."," ","D","o","w","n">>,
     <<"C","o","."," ","D","u","b","l","i","n">>,
     <<"C","o","."," ","F","e","r","m","a","n","a","g","h">>,
     <<"C","o","."," ","G","a","l","w","a","y">>,
     <<"C","o","."," ","K","e","r","r","y">>,
     <<"C","o","."," ","K","i","l","d","a","r","e">>,
     <<"C","o","."," ","K","i","l","k","e","n","n","y">>,
     <<"C","o","."," ","L","a","o","i","s">>,
     <<"C","o","."," ","L","e","i","t","r","i","m">>,
     <<"C","o","."," ","L","i","m","e","r","i","c","k">>,
     <<"C","o","."," ","L","o","n","g","f","o","r","d">>,
     <<"C","o","."," ","L","o","u","t","h">>,
     <<"C","o","."," ","M","a","y","o">>,
     <<"C","o","."," ","M","e","a","t","h">>,
     <<"C","o","."," ","M","o","n","a","g","h","a","n">>,
     <<"C","o","."," ","O","f","f","a","l","y">>,
     <<"C","o","."," ","R","o","s","c","o","m","m","o","n">>,
     <<"C","o","."," ","S","l","i","g","o">>,
     <<"C","o","."," ","T","i","p","p","e","r","a","r","y">>,
     <<"C","o","."," ","T","y","r","o","n","e">>,
     <<"C","o","."," ","W","a","t","e","r","f","o","r","d">>,
     <<"C","o","."," ","W","e","s","t","m","e","a","t","h">>,
     <<"C","o","."," ","W","e","x","f","o","r","d">>,
     <<"C","o","."," ","W","i","c","k","l","o","w">> >>

(* String.prototype.toLowerCase, for the characters A to Z; every other    *)
(* character is left as it is.                                             *)
lowerCase ==
  ("A" :> "a") @@ ("B" :> "b") @@ ("C" :> "c") @@ ("D" :> "d") @@ ("E" :> "e") @@ ("F" :> "f") @@
  ("G" :> "g") @@ ("H" :> "h") @@ ("I" :> "i") @@ ("J" :> "j") @@ ("K" :> "k") @@ ("L" :> "l") @@
  ("M" :> "m") @@ ("N" :> "n") @@ ("O" :> "o") @@ ("P" :> "p") @@ ("Q" :> "q") @@ ("R" :> "r") @@
  ("S" :> "s") @@ ("T" :> "t") @@ ("U" :> "u") @@ ("V" :> "v") @@ ("W" :> "w") @@ ("X" :> "x") @@
  ("Y" :> "y") @@ ("Z" :> "z")

toLowerCase1(c) == IF c \in DOMAIN lowerCase THEN lowerCase[c] ELSE c

toLowerCase(s) == [i \in 1..Len(s) |-> toLowerCase1(s[i])]

CoPrefix == <<"C","o","."," ">>

startsWith(s, p) == Len(s) >= Len(p) /\ SubSeq(s, 1, Len(p)) = p

(* The comparison without toLowerCase: a faulty variant.                   *)
isValidCountyExact(county) ==
  IF county = <<>> THEN FALSE
  ELSE LET countyWithPrefix ==
             IF startsWith(county, CoPrefix) THEN county ELSE CoPrefix \o county
       IN  \E i \in 1..Len(irishCounties) : irishCounties[i] = countyWithPrefix

isValidCounty(county) ==
  IF county = <<>> THEN FALSE
  ELSE LET countyWithPrefix ==
             IF startsWith(county, CoPrefix) THEN county ELSE CoPrefix \o county
           lowered == toLowerCase(countyWithPrefix)
       IN  \E i \in 1..Len(irishCounties) :
              toLowerCase(irishCounties[i]) = lowered

Dublin == <<"D","u","b","l","i","n">>
Atlantis == <<"A","t","l","a","n","t","i","s">>

(* The entries of the county picker the model lets the user choose.        *)
PickerCounties == {irishCounties[10]}

(* Points on one meridian, as meters from a reference point: the great     *)
(* circle distance of two of them is the difference of the offsets.  What  *)
(* the positioning service may answer, as <<position, accuracy>>: nothing, *)
(* a fix of the greatest accepted inaccuracy, and one beyond it.           *)
Fixes == { <<>>, <<0, <<ACCURACY_LIMIT>>>>, <<0, <<ACCURACY_LIMIT + 1>>>> }

(* What the reverse geocoder may answer, as <<street, region, postalCode>>:*)
(* nothing, a full address whose region lacks the prefix, and an unknown   *)
(* region with nothing else.                                               *)
Addresses == { <<>>, <<"text", Dublin, "text">>, <<"", Atlantis, "">> }

Abs(x) == IF x < 0 THEN -x ELSE x
calculateDistance(p, q) == Abs(q - p)

VARIABLES
  reports,    \* collection "reports": storage id -> record, for the stored ids
  usedDocs,   \* storage ids addDoc has handed out (never reused)
  messages,   \* collection "messages", a bag of message records
  blobs,      \* submission ids g with a blob reports/<g>.jpg in storage
  clock,      \* submission ids generateId has handed out so far
  form,       \* ReportScreen state, per session
  up,         \* uploadReport invocations
  del,        \* deleteReport invocation, per session
  adm,        \* AdminDashboard state, per admin
  mod,        \* moderation handler invocations
  roles,      \* collection "users": the role field, per admin account
  isAdmin,    \* AuthProvider state isAdmin, per admin session
  upvotes,    \* the upvotes field of the report documents, per storage id
  userUpvotes,\* collection "userUpvotes": per user, no document or its fields
  cache,      \* FeedScreen state userUpvotes, per feed session
  tog,        \* handleUpvote invocations
  now,        \* the server's clock, in hours
  skew,       \* per admin, how far the device's clock is ahead of the server's
  stamps,     \* the createdAt and expiresAt fields of the message documents
  board,      \* LeaderboardScreen state leaderboardData
  api,        \* the last exchange of the route /api/validate-county
  inbox,      \* collection "messages": document id -> all fields of the document
  msgIds,     \* document ids addDoc has handed out for messages (never reused)
  sweep,      \* the run of deleteExpiredMessages
  auth        \* AuthProvider, per admin's device: state user and loading, the
              \* stored item USER_KEY, the Firebase session, loadUser and the
              \* auth-state callback

more == <<inbox, msgIds, sweep, auth>>

ext == <<roles, isAdmin, upvotes, userUpvotes, cache, tog, now, skew, stamps,
         board, api, more>>

vars == <<reports, usedDocs, messages, blobs, clock, form, up, del, adm, mod, ext>>

dbvars == <<reports, usedDocs, messages, blobs>>

(* The two screens that show the leaderboard.                              *)
BoardViews == {"LeaderboardScreen", "HomeScreen"}

FeedSessions == {"f1", "f2", "f3"}
FeedUser(f) == IF f = "f3" THEN "u2" ELSE "u1"

TogSlots == {"k1", "k2", "k3", "k4"}
TogSession(k) == CASE k = "k3" -> "f2" [] k = "k4" -> "f3" [] OTHER -> "f1"

(* An invocation of handleUpvote: where it is, its arguments and the       *)
(* hasUpvoted it read from the state of its render, and whether it found   *)
(* the user's document.                                                    *)
IdleTog ==
  [ pc |-> "idle", reportId |-> 0, docId |-> 0, hasUpvoted |-> FALSE,
    exists |-> FALSE ]

(* The state outside ReportScreen and AdminDashboard before anyone acts:   *)
(* the admin accounts are signed in as admins, nobody has voted, the       *)
(* clocks agree.                                                           *)
NoExchange == [ county |-> <<>>, status |-> 0, isValid |-> <<>> ]

(* deleteExpiredMessages when it is not running.                           *)
IdleSweep == [pc |-> "idle", now |-> 0, expiredMessages |-> {}]

(* JSON.stringify of the user with its role, and JSON.parse of the item.    *)
stringify(userWithRole) == <<userWithRole.uid, userWithRole.role>>
parse(json) == [uid |-> json[1], role |-> json[2]]

(* The provider of a device whose user signed in as admin some time ago.   *)
SignedIn(a) ==
  [ user |-> <<[uid |-> a, role |-> "admin"]>>, loading |-> FALSE,
    item |-> <<stringify([uid |-> a, role |-> "admin"])>>,
    firebaseUser |-> <<a>>, notify |-> FALSE,
    cb |-> "idle", load |-> "done", json |-> <<>> ]

(* The stores and screens outside the provider.                            *)
InitStores ==
  /\ roles = [a \in Admins |-> "admin"]
  /\ upvotes = [d \in DocIds |-> 0]
  /\ userUpvotes = [u \in Users |-> <<>>]
  /\ cache = [f \in FeedSessions |-> {}]
  /\ tog = [k \in TogSlots |-> IdleTog]
  /\ now = 0
  /\ skew = [a \in Admins |-> 0]
  /\ stamps = EmptyBag
  /\ board = [v \in BoardViews |-> <<>>]
  /\ inbox = <<>>
  /\ msgIds = {}
  /\ sweep = IdleSweep

InitExt ==
  /\ InitStores
  /\ isAdmin = [a \in Admins |-> TRUE]
  /\ auth = [a \in Admins |-> SignedIn(a)]

(***************************************************************************)
(* ReportScreen                                                            *)
(***************************************************************************)
(* The useState values of a mounted screen.  toast is the title of the     *)
(* toast that the last step of the screen has raised, none when that step  *)
(* raised no toast.                                                        *)
InitialForm ==
  [ imageUri |-> "", imageUrl |-> "", uniqueId |-> 0, selectedCategory |-> "",
    description |-> "", reportDocId |-> <<>>, status |-> "null",
    hasExistingReport |-> FALSE, addressLine1 |-> "", county |-> <<>>,
    eircode |-> "", location |-> <<>>, locationAccuracy |-> <<>>,
    isLoading |-> FALSE, toast |-> "none" ]

(* An invocation of uploadReport: where it is, and the values of the       *)
(* render it was created in that it still uses.                            *)
IdleUp == [ pc |-> "idle", uid |-> 0, loc |-> <<>>, county |-> <<>>, calls |-> 0 ]
IdleDel == [ pc |-> "idle", docId |-> <<>>, uid |-> 0 ]

UpBusy(t) == up[t].pc # "idle"
UpInFlight == {t \in UpSlots : UpBusy(t)}

Min(S) == CHOOSE x \in S : \A y \in S : x <= y

PendingOf(rs, u) == {d \in DOMAIN rs : rs[d].userId = u /\ rs[d].status = "pending"}

(* generateId: the time stamp grows from call to call, so that an id       *)
(* differs from every id handed out before.                                *)
generateId(c) == c + 1

(* checkExistingReport: the user's pending reports are queried and the     *)
(* first one, the one with the least storage id, is shown.                 *)
checkExistingReport(f, rs, u) ==
  LET mine == PendingOf(rs, u)
  IN  IF mine # {}
      THEN LET docId == Min(mine)
           IN  [f EXCEPT !.hasExistingReport = TRUE,
                         !.reportDocId = <<docId>>,
                         !.imageUrl = "url",
                         !.selectedCategory = "category",
                         !.description = "text",
                         !.uniqueId = rs[docId].id,
                         !.status = rs[docId].status]
      ELSE [f EXCEPT !.hasExistingReport = FALSE,
                     !.imageUrl = "", !.imageUri = "", !.uniqueId = 0,
                     !.description = "", !.selectedCategory = "",
                     !.reportDocId = <<>>, !.status = "null"]

(* getLocation.  fix is <<>> (getCurrentPositionAsync throws) or           *)
(* <<position, accuracy>>; addr is <<>> (the geocoder finds nothing) or    *)
(* <<street, region, postalCode>>, the one address the geocoder finds.     *)
getLocation(f, fix, addr) ==
  IF fix = <<>> THEN [f EXCEPT !.toast = "Failed to get location"]
  ELSE IF addr = <<>>
  THEN [f EXCEPT !.location = <<fix[1]>>, !.locationAccuracy = fix[2],
                 !.toast = "Location Error"]
  ELSE [f EXCEPT !.location = <<fix[1]>>, !.locationAccuracy = fix[2],
                 !.addressLine1 = addr[1],
                 !.county = IF isValidCounty(addr[2]) THEN addr[2] ELSE @,
                 !.eircode = addr[3],
                 !.toast = "Location retrieved successfully"]

(* The screen is mounted (the application is started): every useState      *)
(* starts from its initial value and the two mount effects run,            *)
(* checkExistingReport and getLocation.                                    *)
Mount(s, fix, addr) ==
  /\ \A t \in UpSlots : UpSession(t) = s => ~UpBusy(t)
  /\ del[s].pc = "idle"
  /\ form' = [form EXCEPT ![s] =
        getLocation(checkExistingReport(InitialForm, reports, SessionUser(s)),
                    fix, addr)]
  /\ UNCHANGED <<ext, dbvars, clock, up, del, adm, mod>>

(* pickImage, with an image chosen; both buttons are disabled while        *)
(* hasExistingReport, and the loading overlay covers them while isLoading. *)
pickImage(s) ==
  /\ ~form[s].hasExistingReport
  /\ ~form[s].isLoading
  /\ clock < MaxIds
  /\ form' = [form EXCEPT ![s] =
        [@ EXCEPT !.imageUri = "img", !.uniqueId = generateId(clock),
                  !.selectedCategory = "", !.description = "",
                  !.reportDocId = <<>>, !.imageUrl = "", !.status = "null",
                  !.toast = "Image selected successfully"]]
  /\ clock' = generateId(clock)
  /\ UNCHANGED <<ext, dbvars, up, del, adm, mod>>

(* The form is rendered while an image is chosen and no report is shown;   *)
(* its inputs below the category list and its Submit button are rendered   *)
(* once a category is chosen.                                              *)
FormShown(f) == f.imageUri # "" /\ f.imageUrl = "" /\ ~f.isLoading
InputsShown(f) == FormShown(f) /\ f.selectedCategory # ""

setSelectedCategory(s) ==
  /\ FormShown(form[s])
  /\ form[s].selectedCategory = ""
  /\ form' = [form EXCEPT ![s].selectedCategory = "category",
                          ![s].toast = "none"]
  /\ UNCHANGED <<ext, dbvars, clock, up, del, adm, mod>>

setDescription(s, text) ==
  /\ InputsShown(form[s])
  /\ form[s].description # text
  /\ form' = [form EXCEPT ![s].description = text, ![s].toast = "none"]
  /\ UNCHANGED <<ext, dbvars, clock, up, del, adm, mod>>

setAddressLine1(s, text) ==
  /\ InputsShown(form[s])
  /\ form[s].addressLine1 # text
  /\ form' = [form EXCEPT ![s].addressLine1 = text, ![s].toast = "none"]
  /\ UNCHANGED <<ext, dbvars, clock, up, del, adm, mod>>

setEircode(s, text) ==
  /\ InputsShown(form[s])
  /\ form[s].eircode # text
  /\ form' = [form EXCEPT ![s].eircode = text, ![s].toast = "none"]
  /\ UNCHANGED <<ext, dbvars, clock, up, del, adm, mod>>

setCounty(s, item) ==
  /\ InputsShown(form[s])
  /\ form[s].county # item
  /\ form' = [form EXCEPT ![s].county = item, ![s].toast = "County Selected"]
  /\ UNCHANGED <<ext, dbvars, clock, up, del, adm, mod>>

(***************************************************************************)
(* uploadReport                                                            *)
(***************************************************************************)
(* The presence check without the postal code: a faulty variant that the   *)
(* properties must tell from FieldsPresent.                                *)
FieldsPresentNoEircode(f) ==
  /\ f.imageUri # "" /\ f.selectedCategory # "" /\ f.description # ""
  /\ f.addressLine1 # "" /\ f.county # <<>>

(* Line 1432: every required field is non-empty.                           *)
FieldsPresent(f) ==
  /\ f.imageUri # "" /\ f.selectedCategory # "" /\ f.description # ""
  /\ f.addressLine1 # "" /\ f.county # <<>> /\ f.eircode # ""

(* locationAccuracy && locationAccuracy > 100: null and 0 are falsy.       *)
AccuracyTooLow(acc) == acc # <<>> /\ acc[1] # 0 /\ acc[1] > ACCURACY_LIMIT

isLocationValid(f) ==
  IF f.location = <<>> THEN FALSE
  ELSE IF AccuracyTooLow(f.locationAccuracy) THEN FALSE
  ELSE f.addressLine1 # "" \/ f.county # <<>> \/ f.eircode # ""

(* The comparison with < in place of <=: a faulty variant.                 *)
checkDuplicateReportInside(rs, u, loc) ==
  \E d \in PendingOf(rs, u) :
     /\ rs[d].location # <<>>
     /\ calculateDistance(loc[1], rs[d].location[1]) < RADIUS_METERS

checkDuplicateReport(rs, u, loc) ==
  \E d \in PendingOf(rs, u) :
     /\ rs[d].location # <<>>
     /\ calculateDistance(loc[1], rs[d].location[1]) <= RADIUS_METERS

(* The synchronous checks at the head of uploadReport: the title of the    *)
(* toast of the first one that fails.                                      *)
Precheck(f) ==
  IF ~FieldsPresent(f) THEN "Missing Fields"
  ELSE IF ~isValidCounty(f.county) THEN "Invalid County"
  ELSE IF ~isLocationValid(f) THEN "Location Validation Failed"
  ELSE "pass"

(* Storage ids still to hand out suffice for the runs in flight.           *)
RoomForDoc == Cardinality(usedDocs) + Cardinality(UpInFlight) < MaxDocs

(* The Submit button is pressed: the checks of lines 1432-1445, then the   *)
(* duplicate query is issued.  The handler works on the values of the      *)
(* render it was created in.                                               *)
uploadStart(t) ==
  LET s == UpSession(t)
      f == form[s]
      v == Precheck(f)
  IN  /\ ~UpBusy(t)
      /\ InputsShown(f)
      /\ IF v # "pass"
         THEN /\ form' = [form EXCEPT ![s].toast = v]
              /\ UNCHANGED up
         ELSE /\ RoomForDoc
              /\ up' = [up EXCEPT ![t] =
                    [ pc |-> IF f.location # <<>> THEN "dup" ELSE "verify",
                      uid |-> f.uniqueId, loc |-> f.location,
                      county |-> f.county, calls |-> 0 ]]
              /\ form' = [form EXCEPT ![s].isLoading =
                                          IF f.location = <<>> THEN TRUE ELSE @,
                                      ![s].toast = "none"]
      /\ UNCHANGED <<ext, dbvars, clock, del, adm, mod>>

(* The duplicate query returns.                                            *)
uploadDuplicateCheck(t) ==
  LET s == UpSession(t)
  IN  /\ up[t].pc = "dup"
      /\ IF checkDuplicateReport(reports, SessionUser(s), up[t].loc)
         THEN /\ up' = [up EXCEPT ![t] = IdleUp]
              /\ form' = [form EXCEPT ![s].toast = "Duplicate Report"]
         ELSE /\ up' = [up EXCEPT ![t].pc = "verify"]
              /\ form' = [form EXCEPT ![s].isLoading = TRUE,
                                      ![s].toast = "none"]
      /\ UNCHANGED <<ext, dbvars, clock, del, adm, mod>>

(* verifyImageWithChatGPT sends its request to /api/verify-image.          *)
uploadVerifySend(t) ==
  /\ up[t].pc = "verify"
  /\ up' = [up EXCEPT ![t].pc = "verdict", ![t].calls = @ + 1]
  /\ form' = [form EXCEPT ![UpSession(t)].toast = "none"]
  /\ UNCHANGED <<ext, dbvars, clock, del, adm, mod>>

(* The reset without setDescription(""): a faulty variant.                 *)
ResetKeepDescription(f, id) ==
  [f EXCEPT !.imageUri = "", !.selectedCategory = "", !.uniqueId = id,
            !.isLoading = FALSE, !.toast = "Validation Failed"]

(* Lines 1460-1469: the form after a verdict of false.                     *)
ResetAfterFailedVerification(f, id) ==
  [f EXCEPT !.imageUri = "", !.selectedCategory = "", !.description = "",
            !.uniqueId = id, !.isLoading = FALSE, !.toast = "Validation Failed"]

(* What the try block of verifyImageWithChatGPT throws when the endpoint    *)
(* answers with a status that is not ok ("429" for a rate limit) or the    *)
(* request fails: new Error(message), or the TypeError of fetch, neither   *)
(* with a status property.                                                 *)
Thrown(verdict) == [ message |-> verdict, status |-> <<>> ]

(* Line 1460: !isVerified, where isVerified is data.isVerified of the      *)
(* response: true, false, or undefined when the body has no such field.    *)
Not(isVerified) == isVerified \in {"false", "undefined"}

(* Line 1378: error.status === 429 *)
IsRateLimit(error) == error.status = <<429>>

(* The verification ends: isVerified is true or false, or the call throws  *)
(* and the catch of lines 1376-1384 either calls verifyImageWithChatGPT    *)
(* again or throws to uploadReport.                                        *)
uploadVerdict(t, verdict) ==
  LET s == UpSession(t)
  IN  /\ up[t].pc = "verdict"
      /\ CASE verdict = "true" ->
                /\ up' = [up EXCEPT ![t].pc = "blob"]
                /\ form' = [form EXCEPT ![s].toast = "none"]
                /\ UNCHANGED clock
           [] Not(verdict) ->
                /\ clock < MaxIds
                /\ up' = [up EXCEPT ![t] = IdleUp]
                /\ form' = [form EXCEPT ![s] =
                              ResetAfterFailedVerification(@, generateId(clock))]
                /\ clock' = generateId(clock)
           [] OTHER ->
                /\ IF IsRateLimit(Thrown(verdict))
                   THEN /\ up' = [up EXCEPT ![t].pc = "verify"]
                        /\ form' = [form EXCEPT ![s].toast = "none"]
                   ELSE /\ up' = [up EXCEPT ![t] = IdleUp]
                        /\ form' = [form EXCEPT ![s].isLoading = FALSE,
                                                ![s].toast = "Upload Failed"]
                /\ UNCHANGED clock
      /\ UNCHANGED <<ext, dbvars, del, adm, mod>>

(* uploadBytes to reports/<uniqueId>.jpg.                                  *)
uploadBytes(t) ==
  /\ up[t].pc = "blob"
  /\ blobs' = blobs \cup {up[t].uid}
  /\ up' = [up EXCEPT ![t].pc = "url"]
  /\ form' = [form EXCEPT ![UpSession(t)].toast = "none"]
  /\ UNCHANGED <<ext, reports, usedDocs, messages, clock, del, adm, mod>>

getDownloadURL(t) ==
  /\ up[t].pc = "url"
  /\ up' = [up EXCEPT ![t].pc = "doc"]
  /\ form' = [form EXCEPT ![UpSession(t)].toast = "none"]
  /\ UNCHANGED <<ext, dbvars, clock, del, adm, mod>>

(* The record with the submitting user as its assignee: a faulty variant.  *)
NewReportAssignedToOwner(id, u, loc, county) ==
  [ id |-> id, userId |-> u, status |-> "pending", assigned |-> u,
    location |-> loc, county |-> county ]

(* The record of lines 1479-1493.                                          *)
NewReport(id, u, loc, county) ==
  [ id |-> id, userId |-> u, status |-> "pending", assigned |-> "null",
    location |-> loc, county |-> county ]

(* A moderation handler invocation.  src, alone, snapR and snapM record    *)
(* for the properties what the handler cannot see: the stored status of    *)
(* its record when it was invoked, whether no one else has written to the  *)
(* collections since, and the collections as they were then.               *)
IdleMod ==
  [ pc |-> "idle", kind |-> "none", reportId |-> 0, docId |-> 0, owner |-> "",
    src |-> "none", alone |-> FALSE,
    snapR |-> <<>>, snapM |-> EmptyBag, expiresAt |-> 0 ]

(* Every other in-flight moderation handler sees a write between its own   *)
(* steps.                                                                  *)
Disturbed(ms, self) ==
  [m \in ModSlots |->
     IF m = self \/ ms[m].pc = "idle" THEN ms[m]
     ELSE IF ms[m].pc = "done" THEN IdleMod
     ELSE [ms[m] EXCEPT !.alone = FALSE, !.snapR = <<>>, !.snapM = EmptyBag]]

(* addDoc creates the record under a storage id of the store's choosing.   *)
uploadAddDoc(t) ==
  LET s == UpSession(t)
  IN  /\ up[t].pc = "doc"
      /\ \E d \in DocIds \ usedDocs :
           /\ reports' = (d :> NewReport(up[t].uid, SessionUser(s), up[t].loc,
                                         up[t].county)) @@ reports
           /\ usedDocs' = usedDocs \cup {d}
           /\ form' = [form EXCEPT ![s] =
                 [@ EXCEPT !.imageUrl = "url", !.reportDocId = <<d>>,
                           !.status = "pending", !.hasExistingReport = TRUE,
                           !.isLoading = FALSE,
                           !.toast = "Report Submitted"]]
      /\ up' = [up EXCEPT ![t] = IdleUp]
      /\ mod' = Disturbed(mod, "none")
      /\ UNCHANGED <<ext, messages, blobs, clock, del, adm>>

(* The upload, the URL retrieval or addDoc throws: the catch and finally   *)
(* of lines 1500-1504.                                                     *)
uploadFail(t) ==
  /\ up[t].pc \in {"blob", "url", "doc"}
  /\ up' = [up EXCEPT ![t] = IdleUp]
  /\ form' = [form EXCEPT ![UpSession(t)].isLoading = FALSE,
                          ![UpSession(t)].toast = "Upload Failed"]
  /\ UNCHANGED <<ext, dbvars, clock, del, adm, mod>>

(***************************************************************************)
(* deleteReport                                                            *)
(***************************************************************************)
ClearedForm(f) ==
  [f EXCEPT !.imageUrl = "", !.imageUri = "", !.uniqueId = 0, !.description = "",
            !.selectedCategory = "", !.reportDocId = <<>>, !.status = "null",
            !.hasExistingReport = FALSE, !.toast = "Report Deleted"]

(* The collection after a delete of its first record instead of d: a       *)
(* faulty variant.                                                         *)
WithoutFirst(rs, d) ==
  IF DOMAIN rs = {} THEN rs
  ELSE [x \in (DOMAIN rs) \ {Min(DOMAIN rs)} |-> rs[x]]

(* The collection after deleteDoc of the record d, stored or not.          *)
Without(rs, d) == [x \in (DOMAIN rs) \ {d} |-> rs[x]]

(* The Delete button is rendered with the report card while the cached     *)
(* status is pending.                                                      *)
deleteStart(s) ==
  LET f == form[s]
  IN  /\ del[s].pc = "idle"
      /\ f.imageUrl # "" /\ f.status = "pending" /\ ~f.isLoading
      /\ f.reportDocId # <<>>
      /\ del' = [del EXCEPT ![s] =
                   [pc |-> "doc", docId |-> f.reportDocId, uid |-> f.uniqueId]]
      /\ form' = [form EXCEPT ![s].toast = "none"]
      /\ UNCHANGED <<ext, dbvars, clock, up, adm, mod>>

(* deleteDoc succeeds whether or not the record is still stored.           *)
deleteDocStep(s) ==
  /\ del[s].pc = "doc"
  /\ reports' = Without(reports, del[s].docId[1])
  /\ del' = [del EXCEPT ![s].pc = "blob"]
  /\ mod' = IF del[s].docId[1] \in DOMAIN reports
            THEN Disturbed(mod, "none") ELSE mod
  /\ form' = [form EXCEPT ![s].toast = "none"]
  /\ UNCHANGED <<ext, usedDocs, messages, blobs, clock, up, adm>>

(* deleteObject throws when the blob does not exist.                       *)
deleteObjectStep(s) ==
  /\ del[s].pc = "blob"
  /\ IF del[s].uid \in blobs
     THEN /\ blobs' = blobs \ {del[s].uid}
          /\ form' = [form EXCEPT ![s] = ClearedForm(@)]
     ELSE /\ form' = [form EXCEPT ![s].toast = "Delete Failed"]
          /\ UNCHANGED blobs
  /\ del' = [del EXCEPT ![s] = IdleDel]
  /\ UNCHANGED <<ext, reports, usedDocs, messages, clock, up, adm, mod>>

deleteFail(s) ==
  /\ del[s].pc \in {"doc", "blob"}
  /\ del' = [del EXCEPT ![s] = IdleDel]
  /\ form' = [form EXCEPT ![s].toast = "Delete Failed"]
  /\ UNCHANGED <<ext, dbvars, clock, up, adm, mod>>

(***************************************************************************)
(* AdminDashboard                                                          *)
(***************************************************************************)
InitialDashboard ==
  [ pendingReports |-> {}, assignedReports |-> {}, processingId |-> <<>> ]

ModBusy(m) == mod[m].pc \notin {"idle", "done"}
ModInFlight == {m \in ModSlots : ModBusy(m)}

Card(rs, d) == [id |-> rs[d].id, docId |-> d]

(* fetchPendingReports: where status == pending.                           *)
fetchPendingReports(rs) ==
  {Card(rs, d) : d \in {x \in DOMAIN rs : rs[x].status = "pending"}}

(* fetchAssignedReports: where assigned == user.uid and status == approved *)
fetchAssignedReports(rs, a) ==
  {Card(rs, d) : d \in {x \in DOMAIN rs : /\ rs[x].assigned = a
                                           /\ rs[x].status = "approved"}}

(* The mount effect of the dashboard (lines 629-632) issues both queries;  *)
(* their results arrive together.                                          *)
loadDashboard(a) ==
  /\ adm' = [adm EXCEPT ![a].pendingReports = fetchPendingReports(reports),
                        ![a].assignedReports = fetchAssignedReports(reports, a)]
  /\ UNCHANGED <<ext, dbvars, clock, form, up, del, mod>>

(* The application never writes the field assigned: a report reaches an    *)
(* admin's assigned list only through a write from outside (the database   *)
(* console), which is this action.                                         *)
assignReport(d, a) ==
  /\ d \in DOMAIN reports
  /\ reports[d].status = "approved"
  /\ reports[d].assigned # a
  /\ reports' = [reports EXCEPT ![d].assigned = a]
  /\ mod' = Disturbed(mod, "none")
  /\ UNCHANGED <<ext, usedDocs, messages, blobs, clock, form, up, del, adm>>

(* Messages still to create suffice for the handlers in flight.            *)
RoomForMessage == BagCardinality(messages) + Cardinality(ModInFlight) < MaxMsgs

StatusOf(rs, d) == IF d \in DOMAIN rs THEN rs[d].status ELSE "deleted"

(* The cards and their buttons are rendered while isAdmin (lines 642-656). *)
(* Lines 517-518, 554-555, 589-590: the guard, then setProcessingId(docId) *)
(* and the first read is issued.  A press on a card whose storage id is    *)
(* the one in processingId returns at once and changes nothing.            *)
modStart(m, kind, card) ==
  LET a == ModAdmin(m)
  IN  /\ ~ModBusy(m)
      /\ isAdmin[a]
      /\ card \in (IF kind = "complete" THEN adm[a].assignedReports
                                         ELSE adm[a].pendingReports)
      /\ adm[a].processingId # <<card.docId>>
      /\ RoomForMessage
      /\ adm' = [adm EXCEPT ![a].processingId = <<card.docId>>]
      /\ mod' = [mod EXCEPT ![m] =
           [ pc |-> "read", kind |-> kind, reportId |-> card.id,
             docId |-> card.docId, owner |-> "",
             src |-> StatusOf(reports, card.docId),
             alone |-> TRUE, snapR |-> reports, snapM |-> messages,
             expiresAt |-> 0 ]]
      /\ UNCHANGED <<ext, dbvars, clock, form, up, del>>

(* catch and finally of a handler: the alert, then setProcessingId(null).  *)
Failed(slot) == IdleMod

(* The handler returns after its last step: what it did is kept for the    *)
(* properties while no one else has written.                               *)
Returned(slot) == IF slot.alone THEN [slot EXCEPT !.pc = "done"] ELSE IdleMod

WithId(rs, id) == {d \in DOMAIN rs : rs[d].id = id}

(* The read of the handler returns.  handleApprove and handleDecline query *)
(* the reports whose field id is reportId and take docs[0], the match with *)
(* the least storage id, which throws when nothing matches; handleComplete *)
(* reads the record docId and throws when it does not exist.               *)
modRead(m) ==
  LET a == ModAdmin(m)
      s == mod[m]
      found == IF s.kind = "complete"
               THEN (IF s.docId \in DOMAIN reports THEN {s.docId} ELSE {})
               ELSE WithId(reports, s.reportId)
  IN  /\ s.pc = "read"
      /\ IF found = {}
         THEN /\ mod' = [mod EXCEPT ![m] = Failed(s)]
              /\ adm' = [adm EXCEPT ![a].processingId = <<>>]
         ELSE /\ mod' = [mod EXCEPT ![m] =
                   [s EXCEPT !.pc = "write",
                             !.owner = reports[Min(found)].userId]]
              /\ UNCHANGED adm
      /\ UNCHANGED <<ext, dbvars, clock, form, up, del>>

(* The update that also assigns the record to its owner: a faulty variant. *)
SetStatusAssigning(rs, d, st) ==
  [rs EXCEPT ![d].status = st, ![d].assigned = rs[d].userId]

(* updateDoc(reportRef, {status: st}).                                     *)
SetStatus(rs, d, st) == [rs EXCEPT ![d].status = st]

TWO_HOURS == 2

(* new Date() on the device of admin a, in hours.                          *)
Date(a) == now + skew[a]

(* expiresAt.setHours(expiresAt.getHours() + 2) *)
expiresAt(date) == date + TWO_HOURS

(* The write of the handler: updateDoc throws when the record does not     *)
(* exist, deleteDoc does not.  Once it has returned, expiresAt is taken    *)
(* from the device's clock and addDoc of the message is called.            *)
modWrite(m) ==
  LET a == ModAdmin(m)
      s == mod[m]
  IN  /\ s.pc = "write"
      /\ IF s.kind # "decline" /\ s.docId \notin DOMAIN reports
         THEN /\ mod' = [mod EXCEPT ![m] = Failed(s)]
              /\ adm' = [adm EXCEPT ![a].processingId = <<>>]
              /\ UNCHANGED reports
         ELSE /\ reports' =
                   CASE s.kind = "approve" -> SetStatus(reports, s.docId, "approved")
                     [] s.kind = "complete" -> SetStatus(reports, s.docId, "completed")
                     [] OTHER -> Without(reports, s.docId)
              /\ mod' = Disturbed([mod EXCEPT ![m].pc = "msg",
                                              ![m].expiresAt = expiresAt(Date(a))], m)
              /\ UNCHANGED adm
      /\ UNCHANGED <<ext, usedDocs, messages, blobs, clock, form, up, del>>

(* The message addressed to the acting admin instead of the owner: a       *)
(* faulty variant.                                                         *)
MessageToAdmin(kind, owner, reportId, admin) ==
  [ userId |-> admin,
    type |-> CASE kind = "approve" -> "approval"
               [] kind = "decline" -> "decline"
               [] OTHER -> "general",
    reportId |-> reportId, read |-> FALSE ]

(* The message of lines 531-540, 566-575, 608-617.                         *)
Message(kind, owner, reportId, admin) ==
  [ userId |-> owner,
    type |-> CASE kind = "approve" -> "approval"
               [] kind = "decline" -> "decline"
               [] OTHER -> "general",
    reportId |-> reportId, read |-> FALSE ]

(* serverTimestamp(): the server's clock when the document is written.     *)
serverTimestamp == now

(* The whole document addDoc writes: the message with its title, its      *)
(* content (lines 533-534, 568-569, 610-611; without the category it       *)
(* quotes) and its time fields.                                            *)
MessageDocument(msg, kind, createdAt, expires) ==
  [ userId |-> msg.userId,
    title |-> CASE kind = "approve" -> "Report Approved"
                [] kind = "decline" -> "Report Declined"
                [] OTHER -> "Report Completed",
    content |-> CASE kind = "approve" -> "has been approved."
                  [] kind = "decline" ->
                       "has been declined. Please review and submit again."
                  [] OTHER -> "has been marked as completed.",
    type |-> msg.type, reportId |-> msg.reportId, createdAt |-> createdAt,
    read |-> msg.read, expiresAt |-> expires ]

(* doc.data() of a stored document, put into the collection f.             *)
Put(f, id, data) == [x \in DOMAIN f \cup {id} |-> IF x = id THEN data ELSE f[x]]

Remove(f, ids) == [x \in DOMAIN f \ ids |-> f[x]]

(* addDoc of the message returns: the card leaves the list, the success    *)
(* alert, then finally setProcessingId(null).                              *)
modMessage(m) ==
  LET a == ModAdmin(m)
      s == mod[m]
      keep(cards) == {c \in cards : c.docId # s.docId}
  IN  /\ s.pc = "msg"
      /\ messages' = messages (+) SetToBag({Message(s.kind, s.owner, s.reportId, a)})
      /\ stamps' = stamps (+) SetToBag({[ reportId |-> s.reportId, kind |-> s.kind,
                                          createdAt |-> serverTimestamp,
                                          expiresAt |-> s.expiresAt ]})
      /\ inbox' = Put(inbox, Cardinality(msgIds) + 1,
                      MessageDocument(Message(s.kind, s.owner, s.reportId, a),
                                      s.kind, serverTimestamp, s.expiresAt))
      /\ msgIds' = msgIds \cup {Cardinality(msgIds) + 1}
      /\ adm' = [adm EXCEPT
                   ![a].processingId = <<>>,
                   ![a].pendingReports =
                       IF s.kind = "complete" THEN @ ELSE keep(@),
                   ![a].assignedReports =
                       IF s.kind = "complete" THEN keep(@) ELSE @]
      /\ mod' = Disturbed([mod EXCEPT ![m] = Returned(s)], m)
      /\ UNCHANGED <<reports, usedDocs, blobs, clock, form, up, del, roles,
                     isAdmin, upvotes, userUpvotes, cache, tog, now, skew,
                     board, api, sweep, auth>>

(* A catch that puts the collection back as the handler found it: a       *)
(* faulty variant.                                                         *)
modFailRollingBack(m) ==
  /\ ModBusy(m)
  /\ mod' = [mod EXCEPT ![m] = Failed(mod[m])]
  /\ adm' = [adm EXCEPT ![ModAdmin(m)].processingId = <<>>]
  /\ reports' = mod[m].snapR
  /\ UNCHANGED <<ext, usedDocs, messages, blobs, clock, form, up, del>>

(* The awaited call of the handler fails (the network, the rules).         *)
modFail(m) ==
  /\ ModBusy(m)
  /\ mod' = [mod EXCEPT ![m] = Failed(mod[m])]
  /\ adm' = [adm EXCEPT ![ModAdmin(m)].processingId = <<>>]
  /\ UNCHANGED <<ext, dbvars, clock, form, up, del>>

(***************************************************************************)
(* Specifications                                                          *)
(***************************************************************************)
Init ==
  /\ reports = <<>>
  /\ usedDocs = {}
  /\ messages = EmptyBag
  /\ blobs = {}
  /\ clock = 0
  /\ form = [s \in Sessions |-> InitialForm]
  /\ up = [t \in UpSlots |-> IdleUp]
  /\ del = [s \in Sessions |-> IdleDel]
  /\ adm = [a \in Admins |-> InitialDashboard]
  /\ mod = [m \in ModSlots |-> IdleMod]
  /\ InitExt
  /\ api = NoExchange

Texts == {"", "text"}
GoodFix == <<0, <<ACCURACY_LIMIT>>>>
GoodAddress == <<"text", Dublin, "text">>

(* A user who fills the form in as asked, and who may delete the report    *)
(* the screen shows.                                                       *)
CarefulUser(s) ==
  \/ Mount(s, GoodFix, GoodAddress)
  \/ form[s].imageUri = "" /\ pickImage(s)
  \/ setSelectedCategory(s)
  \/ setDescription(s, "text")
  \/ deleteStart(s)
  \/ deleteDocStep(s)
  \/ deleteObjectStep(s)
  \/ deleteFail(s)

(* A user who may leave out or blank any input, at any place, and who does *)
(* not delete.                                                             *)
AnyUser(s) ==
  \/ \E fix \in Fixes, addr \in Addresses : Mount(s, fix, addr)
  \/ pickImage(s)
  \/ setSelectedCategory(s)
  \/ \E text \in Texts : setDescription(s, text)
  \/ \E text \in Texts : setAddressLine1(s, text)
  \/ \E text \in Texts : setEircode(s, text)
  \/ \E item \in PickerCounties : setCounty(s, item)

(* uploadReport with every outcome of its calls.                           *)
Upload(t) ==
  \/ uploadStart(t)
  \/ uploadDuplicateCheck(t)
  \/ uploadVerifySend(t)
  \/ \E verdict \in {"true", "false", "error"} : uploadVerdict(t, verdict)
  \/ uploadBytes(t)
  \/ getDownloadURL(t)
  \/ uploadAddDoc(t)
  \/ uploadFail(t)

(* uploadReport with an image that passes and services that answer.        *)
Submit(t) ==
  \/ uploadStart(t)
  \/ uploadDuplicateCheck(t)
  \/ uploadVerifySend(t)
  \/ uploadVerdict(t, "true")
  \/ uploadBytes(t)
  \/ getDownloadURL(t)
  \/ uploadAddDoc(t)

Moderate(m) ==
  \/ \E kind \in {"approve", "decline"} :
        \E card \in adm[ModAdmin(m)].pendingReports : modStart(m, kind, card)
  \/ \E card \in adm[ModAdmin(m)].assignedReports : modStart(m, "complete", card)
  \/ modRead(m)
  \/ modWrite(m)
  \/ modMessage(m)
  \/ modFail(m)

(* A user who opens the screen once and reports one issue.                 *)
FirstVisit(s) ==
  \/ form[s] = InitialForm /\ Mount(s, GoodFix, GoodAddress)
  \/ form[s].imageUri = "" /\ pickImage(s)
  \/ setSelectedCategory(s)
  \/ setDescription(s, "text")

(* Moderation without completions (no report is ever assigned).           *)
Triage(m) ==
  \/ \E kind \in {"approve", "decline"} :
        \E card \in adm[ModAdmin(m)].pendingReports : modStart(m, kind, card)
  \/ modRead(m)
  \/ modWrite(m)
  \/ modMessage(m)
  \/ modFail(m)

(* Submission: one user, the Submit button pressed up to twice in a row;   *)
(* no moderation.                                                          *)
NextSubmit ==
  \/ AnyUser("s1")
  \/ \E t \in {"t1", "t2"} : Upload(t)

SpecSubmit == Init /\ [][NextSubmit]_vars

(* Approvals and declines by one admin of the reports of one user.         *)
NextModerate ==
  \/ CarefulUser("s1")
  \/ Submit("t1")
  \/ loadDashboard("a1")
  \/ Triage("m1")

SpecModerate == Init /\ [][NextModerate]_vars

(* Moderation by one admin of the reports of one user, which are assigned  *)
(* to an admin, and assigned anew, from outside.                           *)
NextAssign ==
  \/ CarefulUser("s1")
  \/ Submit("t1")
  \/ loadDashboard("a1")
  \/ \E d \in DocIds, a \in Admins : assignReport(d, a)
  \/ Moderate("m1")

SpecAssign == Init /\ [][NextAssign]_vars

(* Moderation of one report by two admins, each from their own dashboard.  *)
NextStale ==
  \/ CarefulUser("s1")
  \/ usedDocs = {} /\ Submit("t1")
  \/ \E a \in Admins : loadDashboard(a)
  \/ \E d \in DocIds : assignReport(d, "a1")
  \/ \E m \in {"m1", "m3"} : Moderate(m)

SpecStale == Init /\ [][NextStale]_vars

(* One dashboard with two handler invocations in flight, the reports of    *)
(* two users.                                                              *)
NextGuard ==
  \/ \E s \in {"s1", "s2"} : FirstVisit(s)
  \/ \E t \in {"t1", "t3"} : Submit(t)
  \/ loadDashboard("a1")
  \/ \E m \in {"m1", "m2"} : Triage(m)

SpecGuard == Init /\ [][NextGuard]_vars

(***************************************************************************)
(* Properties                                                              *)
(***************************************************************************)
(* C1: in every reachable state each user owns at most one report record   *)
(* with status pending.                                                    *)
C1_AtMostOnePending ==
  \A u \in Users :
     Cardinality({d \in DOMAIN reports :
                    reports[d].userId = u /\ reports[d].status = "pending"}) <= 1

(* C2: the stored status of a record only changes from pending to approved *)
(* or from approved to completed; the write of a decline deletes a record  *)
(* only while its status is pending; a completed record never changes      *)
(* status and is never deleted.                                            *)
C2_LegalTransitions ==
  [][\A d \in DOMAIN reports :
        /\ d \in DOMAIN reports' =>
              \/ reports'[d].status = reports[d].status
              \/ reports[d].status = "pending" /\ reports'[d].status = "approved"
              \/ reports[d].status = "approved" /\ reports'[d].status = "completed"
        /\ d \notin DOMAIN reports' =>
              /\ reports[d].status # "completed"
              /\ (\E m \in ModSlots :
                     /\ mod[m].pc = "write" /\ mod'[m].pc = "msg"
                     /\ mod[m].kind = "decline" /\ mod[m].docId = d)
                 => reports[d].status = "pending"]_vars

(* A handler of the given kind that was invoked on a pending report has    *)
(* returned without error, and no one else has written to the collections  *)
(* between its invocation and now.                                         *)
RanAlone(m, kind) ==
  /\ mod[m].pc = "done"
  /\ mod[m].kind = kind
  /\ mod[m].alone
  /\ mod[m].src = "pending"

(* C3: when handleApprove has run to completion without error on a pending *)
(* report R with nothing interleaved, R is stored with status approved and *)
(* otherwise as before, every other record is as before, and exactly one   *)
(* message has been added: type approval, userId the owner of R, reportId  *)
(* the generated id of R, read false.                                      *)
C3_ApproveEffect ==
  \A m \in ModSlots :
     RanAlone(m, "approve") =>
        LET d == mod[m].docId
            before == mod[m].snapR
        IN  /\ DOMAIN reports = DOMAIN before
            /\ reports[d].status = "approved"
            /\ [reports[d] EXCEPT !.status = "pending"] = before[d]
            /\ \A x \in DOMAIN before \ {d} : reports[x] = before[x]
            /\ messages = mod[m].snapM (+)
                 SetToBag({[ userId |-> before[d].userId, type |-> "approval",
                             reportId |-> before[d].id, read |-> FALSE ]})

(* handleApprove has run alone to completion while a second record is      *)
(* stored.                                                                 *)
C3_Witness ==
  \E m \in ModSlots :
     RanAlone(m, "approve") /\ Cardinality(DOMAIN mod[m].snapR) = 2

(* C4: when handleDecline has run to completion without error on a pending *)
(* report R with nothing interleaved, no record with the storage id of R   *)
(* is stored, every other record is as before, and exactly one message has *)
(* been added: type decline, userId the owner of R, reportId the generated *)
(* id of R.                                                                *)
C4_DeclineEffect ==
  \A m \in ModSlots :
     RanAlone(m, "decline") =>
        LET d == mod[m].docId
            before == mod[m].snapR
        IN  /\ d \notin DOMAIN reports
            /\ DOMAIN reports = DOMAIN before \ {d}
            /\ \A x \in DOMAIN reports : reports[x] = before[x]
            /\ \E msg \in BagToSet(messages) :
                  /\ messages = mod[m].snapM (+) SetToBag({msg})
                  /\ msg.type = "decline"
                  /\ msg.userId = before[d].userId
                  /\ msg.reportId = before[d].id

(* handleDecline has run alone to completion while a second record is      *)
(* stored.                                                                 *)
C4_Witness ==
  \E m \in ModSlots :
     RanAlone(m, "decline") /\ Cardinality(DOMAIN mod[m].snapR) = 2

(* C5: a step of handleComplete, invoked by admin a, on an approved report *)
(* whose field assigned is not a leaves the status approved and does not   *)
(* go on to the completion message.                                        *)
C5_CompleteOnlyByAssignee ==
  [][\A m \in ModSlots :
        LET d == mod[m].docId
        IN  ( /\ mod[m].kind = "complete"
              /\ mod[m].pc \in {"read", "write"}
              /\ mod'[m].pc # mod[m].pc
              /\ d \in DOMAIN reports
              /\ reports[d].status = "approved"
              /\ reports[d].assigned # ModAdmin(m) )
            => /\ d \in DOMAIN reports'
               /\ reports'[d].status = "approved"
               /\ mod'[m].pc # "msg"]_vars

(* C6: every report has at most one approval message, at most one decline  *)
(* message and at most one completion (type general) message.              *)
C6_OneMessagePerTransition ==
  \A x \in BagToSet(messages) :
     /\ CopiesIn(x, messages) = 1
     /\ \A y \in BagToSet(messages) :
           (y.type = x.type /\ y.reportId = x.reportId) => y = x

(* The status a transition expects of its report.                          *)
ExpectedSource(kind) == IF kind = "complete" THEN "approved" ELSE "pending"

(* C7: a handler invoked on a report that is not in the expected source    *)
(* state (or is deleted) writes no status, deletes nothing and creates no  *)
(* message: none of its steps changes reports or messages, and it never    *)
(* gets past its write.                                                    *)
C7_StaleTransitionFails ==
  [][\A m \in ModSlots :
        ( /\ mod[m].pc \in {"read", "write", "msg"}
          /\ mod[m].src # ExpectedSource(mod[m].kind)
          /\ mod'[m].pc # mod[m].pc )
        => /\ reports' = reports
           /\ messages' = messages
           /\ mod'[m].pc \notin {"msg", "done"}]_vars

(* C8: within one admin session no two handler invocations for the same    *)
(* storage id are in progress at once.                                     *)
C8_GuardExcludesReentry ==
  \A m1, m2 \in ModSlots :
     ( /\ m1 # m2
       /\ ModAdmin(m1) = ModAdmin(m2)
       /\ mod[m1].pc \in {"read", "write", "msg"}
       /\ mod[m2].pc \in {"read", "write", "msg"} )
     => mod[m1].docId # mod[m2].docId

(* The form fields of a screen.                                            *)
FormFields(f) ==
  << f.imageUri, f.selectedCategory, f.description, f.addressLine1, f.county,
     f.eircode, f.uniqueId, f.location, f.locationAccuracy, f.imageUrl,
     f.reportDocId, f.status, f.hasExistingReport >>

(* The preconditions of a submission, as the claim lists them.             *)
SubmissionRefused(f) ==
  \/ f.imageUri = "" \/ f.selectedCategory = "" \/ f.description = ""
  \/ f.addressLine1 = "" \/ f.county = <<>> \/ f.eircode = ""
  \/ ~isValidCounty(f.county)
  \/ f.location = <<>>
  \/ (f.locationAccuracy # <<>> /\ f.locationAccuracy[1] > ACCURACY_LIMIT)

IsDuplicate(u, loc) ==
  \E d \in DOMAIN reports :
     /\ reports[d].userId = u /\ reports[d].status = "pending"
     /\ reports[d].location # <<>>
     /\ Abs(reports[d].location[1] - loc[1]) <= RADIUS_METERS

IdsInUse ==
  {form[s].uniqueId : s \in Sessions} \cup {up[t].uid : t \in UpSlots}
    \cup {reports[d].id : d \in DOMAIN reports} \cup blobs

(* C10: when the verification returns the verdict false, uploadReport      *)
(* creates no record and uploads no blob, clears image, category and       *)
(* description, leaves address line 1, county and postal code as they are, *)
(* and replaces the submission id by one that was in use nowhere.          *)
C10_UnverifiedImageResets ==
  [][\A t \in UpSlots :
        LET s == UpSession(t)
        IN  uploadVerdict(t, "false")
            => /\ UNCHANGED <<reports, usedDocs, blobs>>
               /\ up'[t].pc = "idle"
               /\ form'[s].imageUri = ""
               /\ form'[s].selectedCategory = ""
               /\ form'[s].description = ""
               /\ form'[s].addressLine1 = form[s].addressLine1
               /\ form'[s].county = form[s].county
               /\ form'[s].eircode = form[s].eircode
               /\ form'[s].uniqueId # 0
               /\ form'[s].uniqueId \notin IdsInUse]_vars

(* The verdict false has just arrived for a form that was filled in.       *)
C10_Witness ==
  /\ form["s1"].toast = "Validation Failed"
  /\ form["s1"].imageUri = ""
  /\ form["s1"].addressLine1 # ""
  /\ form["s1"].uniqueId # 0

(***************************************************************************)
(* Location validity                                                       *)
(***************************************************************************)
(* What coords.accuracy of a fix may be: absent, zero, the greatest        *)
(* accepted value, the least refused one, and a coarse one.                *)
Accuracies ==
  { <<>>, <<0>>, <<ACCURACY_LIMIT>>, <<ACCURACY_LIMIT + 1>>, <<150>> }

AllFixes == {<<>>} \cup {<<0, acc>> : acc \in Accuracies}

(* A user whose device reports any of the accuracies, and who may blank    *)
(* or fill in any input.                                                   *)
Surveyor(s) ==
  \/ \E fix \in AllFixes, addr \in Addresses : Mount(s, fix, addr)
  \/ form[s].imageUri = "" /\ pickImage(s)
  \/ setSelectedCategory(s)
  \/ \E text \in Texts : setDescription(s, text)
  \/ \E text \in Texts : setAddressLine1(s, text)
  \/ \E text \in Texts : setEircode(s, text)
  \/ \E item \in PickerCounties : setCounty(s, item)

NextLocation ==
  \/ Surveyor("s1")
  \/ Upload("t1")

SpecLocation == Init /\ [][NextLocation]_vars

(* The location of a form is valid as the claim defines it.                *)
LocationValidAsClaimed(f) ==
  /\ f.location # <<>>
  /\ f.locationAccuracy # <<>>
  /\ f.locationAccuracy[1] <= ACCURACY_LIMIT
  /\ (f.addressLine1 # "" \/ f.county # <<>> \/ f.eircode # "")

(* C11: a submission whose required fields are present and whose county is *)
(* valid passes the location check exactly when a fix exists, its reported *)
(* accuracy is at most 100 meters and one of address line 1, county and    *)
(* postal code is non-empty, whatever accuracy (absent and zero included)  *)
(* the fix reports.                                                        *)
C11_LocationValidity ==
  [][\A t \in UpSlots :
        LET f == form[UpSession(t)]
        IN  ( /\ uploadStart(t)
              /\ f.imageUri # "" /\ f.selectedCategory # "" /\ f.description # ""
              /\ f.addressLine1 # "" /\ f.county # <<>> /\ f.eircode # ""
              /\ isValidCounty(f.county) )
            => (up'[t].pc # "idle" <=> LocationValidAsClaimed(f))]_vars

(***************************************************************************)
(* checkDuplicateReport on any stored collection                           *)
(***************************************************************************)
(* Points on the meridian: the new point and the stored ones lie 0, 50 or  *)
(* 51 meters from one another.                                             *)
Positions == {0, RADIUS_METERS, RADIUS_METERS + 1}

(* What a document of the collection may hold: any owner, any status, and  *)
(* a location or none.                                                     *)
StoredReports(d) ==
  [ id : {d}, userId : Users, status : {"pending", "approved", "completed"},
    assigned : {"null"}, location : {<<>>} \cup {<<p>> : p \in Positions},
    county : {Dublin} ]

(* A form filled in and ready to be submitted from position p.             *)
ReadyForm(p) ==
  [ InitialForm EXCEPT !.imageUri = "img", !.uniqueId = MaxDocs + 1,
                       !.selectedCategory = "category", !.description = "text",
                       !.addressLine1 = "text", !.county = Dublin,
                       !.eircode = "text", !.location = <<p>>,
                       !.locationAccuracy = <<ACCURACY_LIMIT>> ]

(* The collection holds any documents (written from other devices) that    *)
(* leave a storage id for the submission, and the user is about to submit. *)
InitDuplicate ==
  /\ \E D \in SUBSET DocIds :
       /\ Cardinality(D) < MaxDocs
       /\ usedDocs = D
       /\ blobs = D
       /\ reports \in [D -> UNION {StoredReports(d) : d \in D}]
       /\ \A d \in D : reports[d].id = d
  /\ messages = EmptyBag
  /\ clock = MaxDocs + 1
  /\ \E p \in Positions :
       form = [s \in Sessions |-> IF s = "s1" THEN ReadyForm(p) ELSE InitialForm]
  /\ up = [t \in UpSlots |-> IdleUp]
  /\ del = [s \in Sessions |-> IdleDel]
  /\ adm = [a \in Admins |-> InitialDashboard]
  /\ mod = [m \in ModSlots |-> IdleMod]
  /\ InitExt
  /\ api = NoExchange

NextDuplicate == Submit("t1")

SpecDuplicate == InitDuplicate /\ [][NextDuplicate]_vars

(* Some pending report of user u has stored coordinates within 50 meters   *)
(* of point p.                                                             *)
PendingOwnNearby(u, p) ==
  \E d \in DOMAIN reports :
     /\ reports[d].status = "pending"
     /\ reports[d].userId = u
     /\ reports[d].location # <<>>
     /\ reports[d].location[1] - p \in (0 - RADIUS_METERS)..RADIUS_METERS

(* C12: the duplicate check of a submission answers duplicate if and only  *)
(* if some pending report of the submitting user has stored coordinates at *)
(* most 50 meters (50 included) from the new point; reports without        *)
(* coordinates, of other users, or approved or completed never cause it.   *)
C12_DuplicateVerdict ==
  [][\A t \in UpSlots :
        uploadDuplicateCheck(t) =>
          ( form'[UpSession(t)].toast = "Duplicate Report"
            <=> PendingOwnNearby(SessionUser(UpSession(t)), up[t].loc[1]) )]_vars

(* A submission was refused as a duplicate of a report exactly 50 meters   *)
(* away, beside no nearer one.                                             *)
C12_Witness ==
  /\ form["s1"].toast = "Duplicate Report"
  /\ \E d \in DOMAIN reports :
       /\ reports[d].userId = "u1" /\ reports[d].status = "pending"
       /\ reports[d].location # <<>>
       /\ calculateDistance(form["s1"].location[1], reports[d].location[1])
             = RADIUS_METERS
  /\ \A d \in DOMAIN reports :
       reports[d].location # <<>> =>
         calculateDistance(form["s1"].location[1], reports[d].location[1])
           >= RADIUS_METERS

(***************************************************************************)
(* isValidCounty on any string                                             *)
(***************************************************************************)
toUpperCase(s) ==
  [i \in 1..Len(s) |->
     IF \E c \in DOMAIN lowerCase : lowerCase[c] = s[i]
     THEN CHOOSE c \in DOMAIN lowerCase : lowerCase[c] = s[i]
     ELSE s[i]]

(* Strings to validate: a name of the list, another of the list, a name    *)
(* outside it and the empty name, behind a prefix or none, in the case     *)
(* written, in lower case and in upper case.                               *)
CountyNames == { Dublin, <<"C","o","r","k">>, Atlantis, <<>> }

CountyPrefixes ==
  { <<>>, CoPrefix, <<"c","o","."," ">>, <<"C","o",".">>, <<"C","o"," ">>,
    <<" ">>, CoPrefix \o CoPrefix }

CountyStrings ==
  LET written == {p \o n : p \in CountyPrefixes, n \in CountyNames}
  IN  written \cup {toLowerCase(s) : s \in written}
              \cup {toUpperCase(s) : s \in written}

(* The county a caller passes: null (<<>>) or a string.                    *)
CountyArguments == {<<>>} \cup {<<s>> : s \in CountyStrings}

(* A call of isValidCounty from the application (getLocation and           *)
(* uploadReport call it so): null and the empty string are both falsy.     *)
isValidCountyCall ==
  /\ api.isValid = <<>> /\ api.status = 0
  /\ api' = [api EXCEPT !.isValid =
               <<isValidCounty(IF api.county = <<>> THEN <<>> ELSE api.county[1])>>]
  /\ UNCHANGED <<reports, usedDocs, messages, blobs, clock, form, up, del, adm,
                 mod, more, roles, isAdmin, upvotes, userUpvotes, cache, tog, now,
                 skew, stamps, board>>

(* The route /api/validate-county answers a request: 500 when the body     *)
(* does not parse, 400 without a county, else 200 with isValid (and the    *)
(* list).                                                                  *)
POST(parses) ==
  /\ api.isValid = <<>> /\ api.status = 0
  /\ api' = IF ~parses THEN [api EXCEPT !.status = 500]
            ELSE IF api.county = <<>> \/ api.county[1] = <<>>
            THEN [api EXCEPT !.status = 400]
            ELSE [api EXCEPT !.status = 200,
                             !.isValid = <<isValidCounty(api.county[1])>>]
  /\ UNCHANGED <<reports, usedDocs, messages, blobs, clock, form, up, del, adm,
                 mod, more, roles, isAdmin, upvotes, userUpvotes, cache, tog, now,
                 skew, stamps, board>>

(* Any argument is about to be validated.                                  *)
InitCounty ==
  /\ reports = <<>>
  /\ usedDocs = {}
  /\ messages = EmptyBag
  /\ blobs = {}
  /\ clock = 0
  /\ form = [s \in Sessions |-> InitialForm]
  /\ up = [t \in UpSlots |-> IdleUp]
  /\ del = [s \in Sessions |-> IdleDel]
  /\ adm = [a \in Admins |-> InitialDashboard]
  /\ mod = [m \in ModSlots |-> IdleMod]
  /\ InitExt
  /\ \E x \in CountyArguments : api = [NoExchange EXCEPT !.county = x]

NextCounty == isValidCountyCall \/ \E parses \in BOOLEAN : POST(parses)

SpecCounty == InitCounty /\ [][NextCounty]_vars

(* The two strings are equal but for the case of their letters.            *)
SameIgnoringCase(a, b) ==
  /\ Len(a) = Len(b)
  /\ \A j \in 1..Len(a) : toLowerCase1(a[j]) = toLowerCase1(b[j])

(* The argument, with "Co. " put before it when it does not start with it, *)
(* is one of the 32 entries but for case.                                  *)
InReferenceList(x) ==
  /\ x # <<>>
  /\ x[1] # <<>>
  /\ LET s == x[1]
         n == IF Len(s) >= 4 /\ SubSeq(s, 1, 4) = <<"C","o","."," ">>
              THEN s ELSE <<"C","o","."," ">> \o s
     IN  \E i \in 1..32 : SameIgnoringCase(n, irishCounties[i])

(* C13: for every argument isValidCounty answers true exactly when the     *)
(* argument, with "Co. " prepended when it lacks that prefix, equals one   *)
(* of the 32 reference entries but for case; it answers false for the      *)
(* empty string and for null; and the call changes nothing else.           *)
C13_CountyValidity ==
  [][(isValidCountyCall \/ \E parses \in BOOLEAN : POST(parses)) =>
        /\ api'.isValid # <<>> => api'.isValid[1] = InReferenceList(api.county)
        /\ isValidCountyCall => api'.isValid # <<>>
        /\ UNCHANGED <<reports, usedDocs, messages, blobs, clock, form>>]_vars

(* "dublin", without the prefix and in lower case, was found valid, by a   *)
(* direct call.                                                            *)
C13_Witness ==
  /\ api.county = <<toLowerCase(Dublin)>>
  /\ api.status = 0
  /\ api.isValid = <<TRUE>>

(***************************************************************************)
(* The leaderboard                                                         *)
(***************************************************************************)
Unknown == <<"U","n","k","n","o","w","n">>

(* The documents of a query, in the order the store returns them.          *)
RECURSIVE InOrder(_)
InOrder(S) ==
  IF S = {} THEN <<>> ELSE <<Min(S)>> \o InOrder(S \ {Min(S)})

(* snapshot.docs.forEach of lines 49-64: countyData after the documents    *)
(* ds, its keys in the order they were inserted.                           *)
RECURSIVE CountByCounty(_, _, _)
CountByCounty(rs, ds, countyData) ==
  IF ds = <<>> THEN countyData
  ELSE LET data == rs[Head(ds)]
           county == IF data.county = <<>> THEN Unknown ELSE data.county
           known == \E i \in 1..Len(countyData) : countyData[i].county = county
           started == IF known THEN countyData
                      ELSE Append(countyData, [ county |-> county, points |-> 0,
                                                completedReports |-> 0 ])
           counted == [i \in 1..Len(started) |->
                         IF started[i].county = county
                         THEN [started[i] EXCEPT !.points = @ + 10,
                                                 !.completedReports = @ + 1]
                         ELSE started[i]]
       IN  CountByCounty(rs, Tail(ds), counted)

(* No sort at all: a faulty variant.                                       *)
SortAsInserted(entries) == entries

(* Array.prototype.sort((a, b) => b.points - a.points): stable, the entry  *)
(* with more points first.                                                 *)
RECURSIVE SortByPoints(_)
SortByPoints(entries) ==
  IF entries = <<>> THEN <<>>
  ELSE LET most == CHOOSE i \in 1..Len(entries) :
                      /\ \A j \in 1..Len(entries) : entries[j].points <= entries[i].points
                      /\ \A j \in 1..(i - 1) : entries[j].points < entries[i].points
           others == [j \in 1..(Len(entries) - 1) |->
                        IF j < most THEN entries[j] ELSE entries[j + 1]]
       IN  <<entries[most]>> \o SortByPoints(others)

(* The count started from the entries already shown rather than from an    *)
(* empty countyData: a faulty variant.                                     *)
leaderboardArrayAccumulated(rs) ==
  SortByPoints(CountByCounty(rs,
     InOrder({d \in DOMAIN rs : rs[d].status = "completed"}),
     board["LeaderboardScreen"]))

leaderboardArray(rs) ==
  SortByPoints(CountByCounty(rs,
     InOrder({d \in DOMAIN rs : rs[d].status = "completed"}), <<>>))

(* slice(0, 3) *)
TopThree(entries) ==
  SubSeq(entries, 1, IF Len(entries) < 3 THEN Len(entries) ELSE 3)

(* fetchLeaderboardData of the leaderboard screen, and the one of the home *)
(* screen, which keeps the first three entries.  When the query throws the *)
(* state keeps its value.                                                  *)
fetchLeaderboardData(v) ==
  /\ board' = [board EXCEPT ![v] =
        IF v = "HomeScreen" THEN TopThree(leaderboardArray(reports))
                            ELSE leaderboardArray(reports)]
  /\ UNCHANGED <<reports, usedDocs, messages, blobs, clock, form, up, del, adm,
                 mod, more, roles, isAdmin, upvotes, userUpvotes, cache, tog, now,
                 skew, stamps, api>>

MaxBoardDocs == 4

CoDublin == irishCounties[10]
CoCork == irishCounties[6]

(* What a document may hold for the leaderboard: a report that is not      *)
(* completed, or a completed one of any county, of none, or of a county    *)
(* written without the prefix.                                             *)
BoardReports(d) ==
  [ id : {d}, userId : {"u1"}, status : {"pending", "approved"},
    assigned : {"null"}, location : {<<0>>}, county : {CoDublin} ]
  \cup
  [ id : {d}, userId : {"u1"}, status : {"completed"},
    assigned : {"a1"}, location : {<<0>>},
    county : {<<>>, Dublin, CoDublin, CoCork} ]

InitBoard ==
  /\ \E D \in SUBSET (1..MaxBoardDocs) :
       /\ usedDocs = D
       /\ blobs = D
       /\ reports \in [D -> UNION {BoardReports(d) : d \in D}]
       /\ \A d \in D : reports[d].id = d
  /\ messages = EmptyBag
  /\ clock = MaxBoardDocs
  /\ form = [s \in Sessions |-> InitialForm]
  /\ up = [t \in UpSlots |-> IdleUp]
  /\ del = [s \in Sessions |-> IdleDel]
  /\ adm = [a \in Admins |-> InitialDashboard]
  /\ mod = [m \in ModSlots |-> IdleMod]
  /\ InitExt
  /\ api = NoExchange

NextBoard == \E v \in BoardViews : fetchLeaderboardData(v)

SpecBoard == InitBoard /\ [][NextBoard]_vars

(* The county under which the leaderboard counts a record.                 *)
BucketOf(r) == IF r.county = <<>> THEN Unknown ELSE r.county

CompletedOf(c) ==
  {d \in DOMAIN reports : reports[d].status = "completed" /\ BucketOf(reports[d]) = c}

Buckets ==
  {BucketOf(reports[d]) : d \in {x \in DOMAIN reports : reports[x].status = "completed"}}

(* Every entry is the count of its county, no county comes twice, and the  *)
(* points do not increase.                                                 *)
RightEntries(entries) ==
  /\ \A i \in 1..Len(entries) :
       /\ entries[i].county \in Buckets
       /\ entries[i].completedReports = Cardinality(CompletedOf(entries[i].county))
       /\ entries[i].points = 10 * entries[i].completedReports
  /\ \A i, j \in 1..Len(entries) :
       /\ i # j => entries[i].county # entries[j].county
       /\ i < j => entries[i].points >= entries[j].points

OneEntryPerCounty(entries) ==
  /\ RightEntries(entries)
  /\ {entries[i].county : i \in 1..Len(entries)} = Buckets

(* C14, as stated: whatever is stored, a leaderboard that is fetched, on   *)
(* the leaderboard screen or on the home screen, has exactly one entry per *)
(* distinct county among the completed reports (Unknown for a missing      *)
(* county), each with the number of completed reports of the county and    *)
(* ten points per report, in order of non-increasing points.               *)
C14_LeaderboardAsStated ==
  [][\A v \in BoardViews :
        fetchLeaderboardData(v) => OneEntryPerCounty(board'[v])]_vars

(* C14, amended: that holds of the leaderboard screen; the home screen     *)
(* shows the first three entries of such a leaderboard, so with more than  *)
(* three counties the ones with the fewest points have no entry there.     *)
C14_Leaderboard ==
  [][/\ fetchLeaderboardData("LeaderboardScreen")
          => OneEntryPerCounty(board'["LeaderboardScreen"])
     /\ fetchLeaderboardData("HomeScreen")
          => LET shown == board'["HomeScreen"]
             IN  /\ RightEntries(shown)
                 /\ Len(shown) = IF Cardinality(Buckets) < 3
                                 THEN Cardinality(Buckets) ELSE 3
                 /\ \A c \in Buckets \ {shown[i].county : i \in 1..Len(shown)} :
                      \A i \in 1..Len(shown) :
                         shown[i].points >= 10 * Cardinality(CompletedOf(c))]_vars

(* The leaderboard screen shows two counties, the one with two completed   *)
(* reports first although its reports were stored later, while a report    *)
(* that is not completed is stored.                                        *)
C14_Witness ==
  /\ Len(board["LeaderboardScreen"]) = 2
  /\ board["LeaderboardScreen"][1].points = 20
  /\ 1 \in DOMAIN reports
  /\ reports[1].status = "completed"
  /\ BucketOf(reports[1]) = board["LeaderboardScreen"][2].county
  /\ \E d \in DOMAIN reports : reports[d].status # "completed"

(***************************************************************************)
(* FeedScreen: upvotes                                                     *)
(***************************************************************************)
MaxVotes == 2

(* The state of ReportScreen and AdminDashboard, which the other screens   *)
(* leave alone.                                                            *)
core == <<reports, usedDocs, messages, blobs, clock, form, up, del, adm, mod>>

TogBusy(k) == tog[k].pc \in {"counter", "read", "write"}

(* Lines 124-139 of fetchReports: the user's document, when it exists,     *)
(* replaces the local flags; when it does not, they stay.                  *)
fetchReports(f) ==
  LET stored == userUpvotes[FeedUser(f)]
  IN  /\ stored # <<>>
      /\ cache' = [cache EXCEPT ![f] =
                     {r \in DOMAIN stored[1] : stored[1][r] = 1}]
      /\ UNCHANGED <<core, more, roles, isAdmin, upvotes, userUpvotes, tog, now, skew,
                     stamps, board, api>>

(* The upvote button of the card of an approved report is pressed:         *)
(* hasUpvoted is read from the state and the increment is sent.            *)
handleUpvote(k, d) ==
  /\ tog[k].pc = "idle"
  /\ d \in DOMAIN reports
  /\ reports[d].status = "approved"
  /\ LET sent == Cardinality({x \in TogSlots : tog[x].pc = "counter"})
     IN  upvotes[d] + sent < MaxVotes /\ upvotes[d] - sent > 0 - MaxVotes
  /\ tog' = [tog EXCEPT ![k] =
        [ pc |-> "counter", reportId |-> reports[d].id, docId |-> d,
          hasUpvoted |-> reports[d].id \in cache[TogSession(k)],
          exists |-> FALSE ]]
  /\ UNCHANGED <<core, more, roles, isAdmin, upvotes, userUpvotes, cache, now, skew,
                 stamps, board, api>>

(* updateDoc(..., {upvotes: increment(hasUpvoted ? -1 : 1)}) returns and   *)
(* the user's document is asked for.                                       *)
upvoteIncrement(k) ==
  /\ tog[k].pc = "counter"
  /\ tog[k].docId \in DOMAIN reports
  /\ upvotes' = [upvotes EXCEPT ![tog[k].docId] =
                    @ + (IF tog[k].hasUpvoted THEN 0 - 1 ELSE 1)]
  /\ tog' = [tog EXCEPT ![k].pc = "read"]
  /\ UNCHANGED <<core, more, roles, isAdmin, userUpvotes, cache, now, skew, stamps,
                 board, api>>

(* getDoc of the user's document returns.                                  *)
upvoteGetDoc(k) ==
  /\ tog[k].pc = "read"
  /\ tog' = [tog EXCEPT ![k].pc = "write",
                         ![k].exists = userUpvotes[FeedUser(TogSession(k))] # <<>>]
  /\ UNCHANGED <<core, more, roles, isAdmin, upvotes, userUpvotes, cache, now, skew,
                 stamps, board, api>>

(* Lines 222-232: updateDoc sets the one field; setDoc writes a document   *)
(* with the one field, 1.                                                  *)
FlagsWritten(stored, reportId, hasUpvoted, exists) ==
  IF exists
  THEN <<(reportId :> (IF hasUpvoted THEN 0 ELSE 1)) @@ stored[1]>>
  ELSE <<(reportId :> 1)>>

(* The write of the flag returns; then the local flag is set to            *)
(* !hasUpvoted.  (fetchReports, called last and not awaited, is the action *)
(* fetchReports.)                                                          *)
upvoteSetFlag(k) ==
  LET f == TogSession(k)
      u == FeedUser(f)
      s == tog[k]
  IN  /\ s.pc = "write"
      /\ s.exists => userUpvotes[u] # <<>>
      /\ userUpvotes' = [userUpvotes EXCEPT ![u] =
            FlagsWritten(@, s.reportId, s.hasUpvoted, s.exists)]
      /\ cache' = [cache EXCEPT ![f] =
            IF s.hasUpvoted THEN @ \ {s.reportId} ELSE @ \cup {s.reportId}]
      /\ tog' = [tog EXCEPT ![k] = IdleTog]
      /\ UNCHANGED <<core, more, roles, isAdmin, upvotes, now, skew, stamps, board, api>>

(* An awaited call of handleUpvote throws: the alert.  The slot keeps the  *)
(* failure on record.                                                      *)
upvoteFail(k) ==
  /\ TogBusy(k)
  /\ tog' = [tog EXCEPT ![k].pc = "failed"]
  /\ UNCHANGED <<core, more, roles, isAdmin, upvotes, userUpvotes, cache, now, skew,
                 stamps, board, api>>

(* One approved report is in the feed and nobody has voted yet.            *)
InitFeed ==
  /\ reports = (1 :> [ id |-> 1, userId |-> "u2", status |-> "approved",
                       assigned |-> "null", location |-> <<0>>,
                       county |-> CoDublin ])
  /\ usedDocs = {1}
  /\ messages = EmptyBag
  /\ blobs = {1}
  /\ clock = 1
  /\ form = [s \in Sessions |-> InitialForm]
  /\ up = [t \in UpSlots |-> IdleUp]
  /\ del = [s \in Sessions |-> IdleDel]
  /\ adm = [a \in Admins |-> InitialDashboard]
  /\ mod = [m \in ModSlots |-> IdleMod]
  /\ InitExt
  /\ api = NoExchange

Vote(k) ==
  \/ \E d \in DocIds : handleUpvote(k, d)
  \/ upvoteIncrement(k)
  \/ upvoteGetDoc(k)
  \/ upvoteSetFlag(k)
  \/ upvoteFail(k)

NextFeed ==
  \/ \E f \in FeedSessions : fetchReports(f)
  \/ \E k \in TogSlots : Vote(k)

SpecFeed == InitFeed /\ [][NextFeed]_vars

(* The users whose stored flag for the report with generated id r is 1.    *)
Upvoters(r) ==
  {u \in Users : /\ userUpvotes[u] # <<>>
                 /\ r \in DOMAIN userUpvotes[u][1]
                 /\ userUpvotes[u][1][r] = 1}

(* C15: whenever no upvote toggle is in flight and none has failed, the    *)
(* upvotes counter of each report equals the number of users whose flag    *)
(* for that report is 1.                                                   *)
C15_CounterMatchesFlags ==
  (\A k \in TogSlots : tog[k].pc = "idle") =>
     \A d \in DOMAIN reports : upvotes[d] = Cardinality(Upvoters(reports[d].id))

(* C16: deleteReport removes a record only if the record is owned by the   *)
(* calling user and its stored status is pending when it is deleted; and   *)
(* when deleteReport succeeds, the record and the blob are both gone.      *)
C16_DeleteOnlyOwnPending ==
  [][\A s \in Sessions :
        /\ (deleteDocStep(s) /\ reports' # reports) =>
              LET d == del[s].docId[1]
              IN  /\ reports[d].userId = SessionUser(s)
                  /\ reports[d].status = "pending"
        /\ (deleteObjectStep(s) /\ form'[s].toast # "Delete Failed") =>
              /\ del[s].docId[1] \notin DOMAIN reports'
              /\ del[s].uid \notin blobs']_vars

(***************************************************************************)
(* Roles                                                                   *)
(***************************************************************************)
Roles == {"user", "admin", "moderator"}

(* The role field of a user's document is edited in the database, which is *)
(* how roles are granted and withdrawn.                                    *)
setRole(a, r) ==
  /\ roles[a] # r
  /\ roles' = [roles EXCEPT ![a] = r]
  /\ UNCHANGED <<core, more, isAdmin, upvotes, userUpvotes, cache, tog, now, skew,
                 stamps, board, api>>

(* fetchUserRole, called by the auth-state callback and by                 *)
(* refreshUserRole (if (user)), when its getDoc returns: user and isAdmin  *)
(* follow the stored role and the user is saved under USER_KEY.            *)
fetchUserRole(a) ==
  LET userWithRole == [uid |-> a, role |-> roles[a]]
  IN  /\ auth[a].cb = "getDoc" \/ auth[a].user # <<>>
      /\ isAdmin' = [isAdmin EXCEPT ![a] = userWithRole.role \in {"admin", "moderator"}]
      /\ auth' = [auth EXCEPT ![a].user = <<userWithRole>>,
                              ![a].item = <<stringify(userWithRole)>>,
                              ![a].cb = "idle"]
  /\ UNCHANGED <<core, inbox, msgIds, sweep, roles, upvotes, userUpvotes, cache, tog, now, skew,
                 stamps, board, api>>

NextRoles ==
  \/ FirstVisit("s1")
  \/ Submit("t1")
  \/ loadDashboard("a1")
  \/ Triage("m1")
  \/ \E r \in Roles : setRole("a1", r)
  \/ fetchUserRole("a1")

SpecRoles == Init /\ [][NextRoles]_vars

(* C17: no moderation mutation (status update, deletion by decline,        *)
(* message creation) is performed by a session whose user's stored role is *)
(* not admin or moderator at that time, also when the role was changed     *)
(* after the session cached it.                                            *)
C17_MutationsOnlyByAdmins ==
  [][\A m \in ModSlots :
        ( /\ modWrite(m) \/ modMessage(m)
          /\ reports' # reports \/ messages' # messages )
        => roles[ModAdmin(m)] \in {"admin", "moderator"}]_vars

(***************************************************************************)
(* The verification client under rate limits                               *)
(***************************************************************************)
(* uploadReport while the verification endpoint may answer 429, or 200     *)
(* with a body that holds no isVerified.                                   *)
UploadRateLimited(t) ==
  \/ uploadStart(t)
  \/ uploadDuplicateCheck(t)
  \/ uploadVerifySend(t)
  \/ \E verdict \in {"true", "false", "undefined", "429", "error"} :
        uploadVerdict(t, verdict)
  \/ uploadBytes(t)
  \/ getDownloadURL(t)
  \/ uploadAddDoc(t)
  \/ uploadFail(t)

NextVerify ==
  \/ AnyUser("s1")
  \/ UploadRateLimited("t1")

SpecVerify == Init /\ [][NextVerify]_vars

(* C18: when the endpoint answers the first call of a verification with a  *)
(* rate limit the client calls it once more; when it answers the second    *)
(* call with a rate limit the error goes to the caller; a verification     *)
(* never makes more than two calls.                                        *)
C18_RetryOnce ==
  [][\A t \in UpSlots :
        /\ up'[t].calls <= 2
        /\ uploadVerdict(t, "429") =>
              IF up[t].calls = 1
              THEN up'[t].pc = "verify"
              ELSE form'[UpSession(t)].toast = "Upload Failed"]_vars

(***************************************************************************)
(* Message expiry                                                          *)
(***************************************************************************)
MaxTime == 2

(* An hour passes.                                                         *)
tick ==
  /\ now < MaxTime
  /\ now' = now + 1
  /\ UNCHANGED <<core, more, roles, isAdmin, upvotes, userUpvotes, cache, tog, skew,
                 stamps, board, api>>

(* The clock of the admin's device is set an hour back or ahead of the     *)
(* server's, or to agree with it.                                          *)
setDeviceClock(a, ahead) ==
  /\ skew[a] # ahead
  /\ skew' = [skew EXCEPT ![a] = ahead]
  /\ UNCHANGED <<core, more, roles, isAdmin, upvotes, userUpvotes, cache, tog, now,
                 stamps, board, api>>

NextExpiry ==
  \/ FirstVisit("s1")
  \/ Submit("t1")
  \/ loadDashboard("a1")
  \/ \E d \in DocIds : assignReport(d, "a1")
  \/ Moderate("m1")
  \/ tick
  \/ \E ahead \in {0 - 1, 0, 1} : setDeviceClock("a1", ahead)

SpecExpiry == Init /\ [][NextExpiry]_vars

(* C19: every message created by approve, decline or complete has          *)
(* expiresAt equal to its createdAt plus exactly two hours, whatever the   *)
(* difference between the admin's clock and the server's.                  *)
C19_ExpiresTwoHoursAfterCreation ==
  \A s \in BagToSet(stamps) : s.expiresAt = s.createdAt + TWO_HOURS

(***************************************************************************)
(* County values with and without the prefix                               *)
(***************************************************************************)
(* The feed's filter and its cards: the county with "Co. " put before it   *)
(* unless it starts with it.                                               *)
normalizedCounty(county) ==
  IF startsWith(county, CoPrefix) THEN county ELSE CoPrefix \o county

(* C20: every consumer of county values treats a county written without    *)
(* "Co. " as the county written with it; so no leaderboard that is fetched *)
(* has two entries for counties that differ only by the prefix, and the    *)
(* completed reports of "Dublin" and of "Co. Dublin" are counted in one    *)
(* entry.                                                                  *)
C20_PrefixMakesNoDifference ==
  [][\A v \in BoardViews :
        fetchLeaderboardData(v) =>
           \A i, j \in 1..Len(board'[v]) :
              normalizedCounty(board'[v][i].county)
                = normalizedCounty(board'[v][j].county) => i = j]_vars

C22_UpvotesNonNegative ==
  \A d \in DOMAIN reports : upvotes[d] \in Nat

(* C23: in every execution of uploadReport the steps come in this order:   *)
(* field and location validation, duplicate check, image verification,     *)
(* blob upload, download-URL retrieval, record creation.  A blob is        *)
(* uploaded only after the verification returned true, and a record is     *)
(* created only after upload and URL retrieval succeeded, with status      *)
(* pending, assigned null, the submitting user as userId and the           *)
(* submission id that keys the blob as id.                                 *)
C23_SubmissionStepsInOrder ==
  [][/\ \A t \in UpSlots :
          LET before == up[t].pc
              after == up'[t].pc
              u == SessionUser(UpSession(t))
          IN  /\ (after = "dup" /\ before # "dup") =>
                    uploadStart(t) /\ Precheck(form[UpSession(t)]) = "pass"
              /\ (after = "verify" /\ before # "verify") =>
                    uploadDuplicateCheck(t) /\ ~IsDuplicate(u, up[t].loc)
              /\ (after = "verdict" /\ before # "verdict") => uploadVerifySend(t)
              /\ (after = "blob" /\ before # "blob") => uploadVerdict(t, "true")
              /\ (after = "url" /\ before # "url") =>
                    uploadBytes(t) /\ up[t].uid \in blobs'
              /\ (after = "doc" /\ before # "doc") => getDownloadURL(t)
              /\ uploadBytes(t) => before = "blob"
              /\ uploadAddDoc(t) =>
                    /\ before = "doc"
                    /\ \E d \in DOMAIN reports' \ DOMAIN reports :
                         /\ DOMAIN reports' = DOMAIN reports \cup {d}
                         /\ reports'[d].status = "pending"
                         /\ reports'[d].assigned = "null"
                         /\ reports'[d].userId = u
                         /\ reports'[d].id = up[t].uid
     /\ blobs' # blobs => \E x \in UpSlots : uploadBytes(x)
     /\ DOMAIN reports' # DOMAIN reports => \E x \in UpSlots : uploadAddDoc(x)]_vars

(* A submission has just run through all its steps: its record is stored   *)
(* and its blob is in storage.                                             *)
C23_Witness ==
  /\ form["s1"].toast = "Report Submitted"
  /\ form["s1"].reportDocId # <<>>
  /\ form["s1"].reportDocId[1] \in DOMAIN reports
  /\ reports[form["s1"].reportDocId[1]].id \in blobs

(* C24: in approve, decline and complete the status mutation (or the       *)
(* deletion) has been issued and has completed before the message is       *)
(* created; and when the creation of the message fails after the mutation  *)
(* succeeded, the handler ends in its catch (the error alert), the         *)
(* mutation stays in effect and no message is created for the transition.  *)
C24_MutationBeforeMessage ==
  [][\A m \in ModSlots :
        /\ (mod'[m].pc = "msg" /\ mod[m].pc # "msg") =>
              /\ modWrite(m)
              /\ IF mod[m].kind = "decline"
                 THEN mod[m].docId \notin DOMAIN reports'
                 ELSE reports'[mod[m].docId].status =
                        (IF mod[m].kind = "approve" THEN "approved" ELSE "completed")
        /\ modMessage(m) => mod[m].pc = "msg"
        /\ (modFail(m) /\ mod[m].pc = "msg") =>
              /\ UNCHANGED <<reports, messages, stamps>>
              /\ adm'[ModAdmin(m)].processingId = <<>>
              /\ ~ModBusy(m)']_vars

(* The creation of the message of an approval has failed: the record is    *)
(* approved, its card is still in the admin's pending list, and there is   *)
(* no message.                                                             *)
C24_Witness ==
  /\ \A m \in ModSlots : mod[m].pc = "idle"
  /\ messages = EmptyBag
  /\ \E card \in adm["a1"].pendingReports :
       /\ card.docId \in DOMAIN reports
       /\ reports[card.docId].status = "approved"

(* C25: when the verification call fails (the network, a response that is  *)
(* not 2xx, a malformed response) uploadReport creates no record, uploads  *)
(* no blob, reports a failure and leaves image, category, description and  *)
(* submission id as they are; only a well-formed verdict false resets      *)
(* them.                                                                   *)
C25_FailedVerificationKeepsForm ==
  [][\A t \in UpSlots :
        LET s == UpSession(t)
        IN  (\E failure \in {"error", "429", "undefined"} : uploadVerdict(t, failure))
            => /\ UNCHANGED <<reports, usedDocs, blobs>>
               /\ up'[t].pc = "idle"
               /\ form'[s].toast = "Upload Failed"
               /\ form'[s].imageUri = form[s].imageUri
               /\ form'[s].selectedCategory = form[s].selectedCategory
               /\ form'[s].description = form[s].description
               /\ form'[s].uniqueId = form[s].uniqueId]_vars

(***************************************************************************)
(* The messages of the account screen and the hourly sweep                 *)
(***************************************************************************)
(* The fields of a message document that the bag messages keeps, and the   *)
(* ones the bag stamps keeps.                                              *)
Stored(document) ==
  [ userId |-> document.userId, type |-> document.type,
    reportId |-> document.reportId, read |-> document.read ]

Stamp(document) ==
  [ reportId |-> document.reportId,
    kind |-> CASE document.type = "approval" -> "approve"
               [] document.type = "decline" -> "decline"
               [] OTHER -> "complete",
    createdAt |-> document.createdAt, expiresAt |-> document.expiresAt ]

(* The documents the listener of fetchMessages has shown the user u: the   *)
(* query keeps the user's own messages.  A document that has expired since *)
(* the last snapshot is still in the list.                                 *)
fetchMessages(u) == {id \in DOMAIN inbox : inbox[id].userId = u}

(* handleMessageRead: updateDoc writes read: true on the document.  The    *)
(* local list is then mapped the same way; the listener replaces it with   *)
(* every snapshot.  On a document that is gone updateDoc throws and the    *)
(* catch alerts.                                                           *)
handleMessageRead(u, messageId) ==
  /\ messageId \in fetchMessages(u)
  /\ inbox' = [inbox EXCEPT ![messageId].read = TRUE]
  /\ messages' = (messages (-) SetToBag({Stored(inbox[messageId])}))
                    (+) SetToBag({Stored(inbox'[messageId])})
  /\ UNCHANGED <<reports, usedDocs, blobs, clock, form, up, del, adm, mod,
                 roles, isAdmin, upvotes, userUpvotes, cache, tog, now, skew,
                 stamps, board, api, msgIds, sweep, auth>>

(* handleDismiss: deleteDoc removes the document, then the local list      *)
(* drops it.                                                               *)
handleDismiss(u, messageId) ==
  /\ messageId \in fetchMessages(u)
  /\ inbox' = Remove(inbox, {messageId})
  /\ messages' = messages (-) SetToBag({Stored(inbox[messageId])})
  /\ stamps' = stamps (-) SetToBag({Stamp(inbox[messageId])})
  /\ UNCHANGED <<reports, usedDocs, blobs, clock, form, up, del, adm, mod,
                 roles, isAdmin, upvotes, userUpvotes, cache, tog, now, skew,
                 board, api, msgIds, sweep, auth>>

(* deleteExpiredMessages starts: now = new Date() on the server, and the   *)
(* query is sent.                                                          *)
deleteExpiredMessages ==
  /\ sweep.pc = "idle"
  /\ sweep' = [pc |-> "get", now |-> now, expiredMessages |-> {}]
  /\ UNCHANGED <<core, roles, isAdmin, upvotes, userUpvotes, cache, tog, now,
                 skew, stamps, board, api, inbox, msgIds, auth>>

(* The query that includes the documents whose expiresAt equals now: a     *)
(* faulty variant.                                                         *)
expiredMessagesInclusive(docs, date) == {id \in DOMAIN docs : docs[id].expiresAt <= date}

(* where('expiresAt', '<', now)                                            *)
expiredMessages(docs, date) == {id \in DOMAIN docs : docs[id].expiresAt < date}

(* get() returns; the batch is filled with a delete for every document     *)
(* found and its commit is sent.                                           *)
sweepGet ==
  /\ sweep.pc = "get"
  /\ sweep' = [sweep EXCEPT !.pc = "commit",
                            !.expiredMessages = expiredMessages(inbox, sweep.now)]
  /\ UNCHANGED <<core, roles, isAdmin, upvotes, userUpvotes, cache, tog, now,
                 skew, stamps, board, api, inbox, msgIds, auth>>

(* The documents of the batch as the bags messages and stamps keep them.   *)
StoredOf(docs, ids) ==
  [r \in {Stored(docs[id]) : id \in ids} |->
     Cardinality({id \in ids : Stored(docs[id]) = r})]

StampsOf(docs, ids) ==
  [r \in {Stamp(docs[id]) : id \in ids} |->
     Cardinality({id \in ids : Stamp(docs[id]) = r})]

(* batch.commit() is applied: every document of the batch that is still    *)
(* stored is deleted.                                                      *)
sweepCommit ==
  LET gone == sweep.expiredMessages \cap DOMAIN inbox
  IN  /\ sweep.pc = "commit"
      /\ inbox' = Remove(inbox, gone)
      /\ messages' = messages (-) StoredOf(inbox, gone)
      /\ stamps' = stamps (-) StampsOf(inbox, gone)
      /\ sweep' = IdleSweep
      /\ UNCHANGED <<reports, usedDocs, blobs, clock, form, up, del, adm, mod,
                     roles, isAdmin, upvotes, userUpvotes, cache, tog, now,
                     skew, board, api, msgIds, auth>>

(* get() or commit() throws: the catch logs the error.                     *)
sweepFail ==
  /\ sweep.pc \in {"get", "commit"}
  /\ sweep' = IdleSweep
  /\ UNCHANGED <<core, roles, isAdmin, upvotes, userUpvotes, cache, tog, now,
                 skew, stamps, board, api, inbox, msgIds, auth>>

NextInbox ==
  \/ FirstVisit("s1")
  \/ Submit("t1")
  \/ loadDashboard("a1")
  \/ \E d \in DocIds : assignReport(d, "a1")
  \/ Moderate("m1")
  \/ tick
  \/ \E ahead \in {0 - 1, 0, 1} : setDeviceClock("a1", ahead)
  \/ \E id \in 1..MaxMsgs : handleMessageRead("u1", id)
  \/ \E id \in 1..MaxMsgs : handleDismiss("u1", id)
  \/ deleteExpiredMessages
  \/ sweepGet
  \/ sweepCommit
  \/ sweepFail

SpecInbox == Init /\ [][NextInbox]_vars

(* The message with every field but read.                                  *)
ButRead(document) == [document EXCEPT !.read = FALSE]

C27_AssignedNeverWritten ==
  /\ \A d \in DOMAIN reports : reports[d].assigned = "null"
  /\ \A a \in Admins :
        /\ fetchAssignedReports(reports, a) = {}
        /\ adm[a].assignedReports = {}
  /\ \A m \in ModSlots :
        ~ENABLED (\E card \in adm[ModAdmin(m)].assignedReports :
                     modStart(m, "complete", card))

(* A report has been approved and its owner told, and the dashboard, now   *)
(* idle, has nothing left to show.                                         *)
C27_Witness ==
  /\ \E d \in DOMAIN reports : reports[d].status = "approved"
  /\ BagCardinality(messages) = 1
  /\ \A m \in ModSlots : ~ModBusy(m)
  /\ adm["a1"].pendingReports = {}
  /\ adm["a1"].assignedReports = fetchAssignedReports(reports, "a1")

(***************************************************************************)
(* Moderation after a repeated submission                                  *)
(***************************************************************************)
(* One user who may press Submit twice in a row, one admin who approves    *)
(* and declines.                                                           *)
NextTwins ==
  \/ FirstVisit("s1")
  \/ \E t \in {"t1", "t2"} : Submit(t)
  \/ loadDashboard("a1")
  \/ Triage("m1")

SpecTwins == Init /\ [][NextTwins]_vars

(* C28: in handleApprove and handleDecline the record returned first by    *)
(* the query on the generated id is the record with the storage id passed  *)
(* to the handler, so the owner the message goes to is read from the very  *)
(* record that is updated or deleted, also after a repeated submission     *)
(* that reuses a submission id.                                            *)
C28_FirstMatchIsTheRecord ==
  [][\A m \in ModSlots :
        (/\ modRead(m)
         /\ mod[m].kind \in {"approve", "decline"}
         /\ mod'[m].pc = "write")
        => /\ mod[m].docId \in DOMAIN reports
           /\ Min(WithId(reports, mod[m].reportId)) = mod[m].docId
           /\ mod'[m].owner = reports[mod[m].docId].userId]_vars

(***************************************************************************)
(* AuthProvider at start-up                                                *)
(***************************************************************************)
(* The provider as it mounts: user null, loading, isAdmin false; loadUser  *)
(* has called getItem and the listener of onAuthStateChanged is about to   *)
(* be told the session Firebase has.                                       *)
Mounted(item, firebaseUser) ==
  [ user |-> <<>>, loading |-> TRUE, item |-> item,
    firebaseUser |-> firebaseUser, notify |-> TRUE,
    cb |-> "idle", load |-> "getItem", json |-> <<>> ]

(* signInWithEmailAndPassword and auth.signOut(): the session changes and  *)
(* the listener is owed a call.                                            *)
signIn(a) ==
  /\ auth[a].firebaseUser = <<>>
  /\ auth' = [auth EXCEPT ![a].firebaseUser = <<a>>, ![a].notify = TRUE]
  /\ UNCHANGED <<core, inbox, msgIds, sweep, roles, isAdmin, upvotes,
                 userUpvotes, cache, tog, now, skew, stamps, board, api>>

signOut(a) ==
  /\ auth[a].firebaseUser # <<>>
  /\ auth' = [auth EXCEPT ![a].firebaseUser = <<>>, ![a].notify = TRUE]
  /\ UNCHANGED <<core, inbox, msgIds, sweep, roles, isAdmin, upvotes,
                 userUpvotes, cache, tog, now, skew, stamps, board, api>>

(* The callback of lines 92-100, up to its await: with a user it calls     *)
(* fetchUserRole, whose getDoc is then awaited; without one it sets user   *)
(* null and isAdmin false and removes the item.                            *)
onAuthStateChanged(a) ==
  /\ auth[a].notify
  /\ auth[a].cb = "idle"
  /\ IF auth[a].firebaseUser # <<>>
     THEN /\ auth' = [auth EXCEPT ![a].notify = FALSE, ![a].cb = "getDoc"]
          /\ UNCHANGED isAdmin
     ELSE /\ auth' = [auth EXCEPT ![a].notify = FALSE, ![a].user = <<>>,
                                  ![a].item = <<>>]
          /\ isAdmin' = [isAdmin EXCEPT ![a] = FALSE]
  /\ UNCHANGED <<core, inbox, msgIds, sweep, roles, upvotes, userUpvotes,
                 cache, tog, now, skew, stamps, board, api>>

(* The catch of fetchUserRole (lines 50-60): getDoc has thrown, the user   *)
(* is kept with the role user.                                             *)
fetchUserRoleFailed(a) ==
  LET userWithDefaultRole == [uid |-> a, role |-> "user"]
  IN  /\ auth[a].cb = "getDoc"
      /\ isAdmin' = [isAdmin EXCEPT ![a] = FALSE]
      /\ auth' = [auth EXCEPT ![a].user = <<userWithDefaultRole>>,
                              ![a].item = <<stringify(userWithDefaultRole)>>,
                              ![a].cb = "idle"]
      /\ UNCHANGED <<core, inbox, msgIds, sweep, roles, upvotes, userUpvotes,
                     cache, tog, now, skew, stamps, board, api>>

(* AsyncStorage reads the item for the getItem of loadUser (line 74).      *)
getItem(a) ==
  /\ auth[a].load = "getItem"
  /\ auth' = [auth EXCEPT ![a].load = "read", ![a].json = auth[a].item]
  /\ UNCHANGED <<core, inbox, msgIds, sweep, roles, isAdmin, upvotes,
                 userUpvotes, cache, tog, now, skew, stamps, board, api>>

(* loadUser goes on after its await (lines 76-85).  The item is always one *)
(* that JSON.stringify wrote, so JSON.parse does not throw.                *)
loadUser(a) ==
  /\ auth[a].load = "read"
  /\ IF auth[a].json # <<>>
     THEN LET parsedUser == parse(auth[a].json[1])
          IN  /\ auth' = [auth EXCEPT ![a].user = <<parsedUser>>,
                                      ![a].loading = FALSE, ![a].load = "done"]
              /\ isAdmin' = [isAdmin EXCEPT
                               ![a] = parsedUser.role \in {"admin", "moderator"}]
     ELSE /\ auth' = [auth EXCEPT ![a].loading = FALSE, ![a].load = "done"]
          /\ UNCHANGED isAdmin
  /\ UNCHANGED <<core, inbox, msgIds, sweep, roles, upvotes, userUpvotes,
                 cache, tog, now, skew, stamps, board, api>>

(* The device of a1 starts the application with any session and with any   *)
(* item an earlier run of fetchUserRole can have left under USER_KEY.      *)
InitAuth ==
  /\ reports = <<>>
  /\ usedDocs = {}
  /\ messages = EmptyBag
  /\ blobs = {}
  /\ clock = 0
  /\ form = [s \in Sessions |-> InitialForm]
  /\ up = [t \in UpSlots |-> IdleUp]
  /\ del = [s \in Sessions |-> IdleDel]
  /\ adm = [a \in Admins |-> InitialDashboard]
  /\ mod = [m \in ModSlots |-> IdleMod]
  /\ InitStores
  /\ api = NoExchange
  /\ isAdmin = [a \in Admins |-> a # "a1"]
  /\ \E item \in {<<>>} \cup {<<stringify([uid |-> "a1", role |-> r])>> : r \in Roles},
        firebaseUser \in {<<>>, <<"a1">>} :
        auth = [a \in Admins |->
                  IF a = "a1" THEN Mounted(item, firebaseUser) ELSE SignedIn(a)]

NextAuth ==
  \/ getItem("a1")
  \/ loadUser("a1")
  \/ signIn("a1")
  \/ signOut("a1")
  \/ onAuthStateChanged("a1")
  \/ fetchUserRole("a1")
  \/ fetchUserRoleFailed("a1")
  \/ \E r \in Roles : setRole("a1", r)

SpecAuth == InitAuth /\ [][NextAuth]_vars

(* C29: isAdmin is true only while user is non-null with role admin or     *)
(* moderator; and once loadUser and the callback that reports the signed-  *)
(* out session have both finished, in whichever order their steps          *)
(* interleave, user is null and isAdmin is false.                          *)
C29_SignedOutStaysSignedOut ==
  \A a \in Admins :
     /\ isAdmin[a] =>
           /\ auth[a].user # <<>>
           /\ auth[a].user[1].role \in {"admin", "moderator"}
     /\ (/\ auth[a].load = "done"
         /\ auth[a].firebaseUser = <<>>
         /\ ~auth[a].notify
         /\ auth[a].cb = "idle")
        => auth[a].user = <<>> /\ ~isAdmin[a]

(***************************************************************************)
(* Records and their blobs                                                 *)
(***************************************************************************)
(* One user who may press Submit twice in a row and who deletes, one admin *)
(* who approves and declines.                                              *)
NextBlobs ==
  \/ CarefulUser("s1")
  \/ \E t \in {"t1", "t2"} : Submit(t)
  \/ loadDashboard("a1")
  \/ Triage("m1")

SpecBlobs == Init /\ [][NextBlobs]_vars

(* C30: in every reachable state the image blob of every stored report     *)
(* record, reports/<generated id>.jpg, exists in blob storage.             *)
C30_EveryRecordHasItsBlob ==
  \A d \in DOMAIN reports : reports[d].id \in blobs

=============================================================================
